---- MODULE Spec2Model ----
(***************************************************************************)
(* Model of the dashboard export add-in (src/app.js): the tabular          *)
(* transform engine (filterColumns and its helpers) and the export         *)
(* orchestration around the per-session column cache.                      *)
(*                                                                         *)
(* Conventions.  A JavaScript string is a sequence of one-character        *)
(* strings, so that trim, toLowerCase, join, parseFloat and the regular    *)
(* expressions of the source are computed character by character.  A       *)
(* JavaScript value is a record [t, n, s]: t is the type tag, n the number *)
(* (or the month count of a Date), s the characters of a string.  Arrays   *)
(* are sequences and array indices are 1-based here (0-based in the        *)
(* source); indexOf/findIndex return 0 where the source returns -1.        *)
(***************************************************************************)
EXTENDS Integers, Sequences, FiniteSets, TLC

VARIABLES
    tpc,        \* position of the single-view transform pass
    tin,        \* its inputs: dataTable, wsColumns, aggregateData, includeNulls
    tmapped,    \* columns resolved by name in the fresh result set
    tdata,      \* the matrix produced for the view (or the null marker)
    tsheets,    \* sheets appended by the pass
    tstatus     \* type of the last status message of the pass

tvars == <<tpc, tin, tmapped, tdata, tsheets, tstatus>>

VARIABLES
    worksheets,             \* names of dashboard.worksheets, in list order
    checked,                \* names whose worksheet checkbox is checked
    worksheetColumns,       \* window.worksheetColumns: name -> cached columns
    columnList,             \* column panels held by the #columnList element
    tasks,                  \* handleWorksheetSelection calls awaiting a fetch
    epc,                    \* position of exportToExcel
    selectedWorksheets,     \* exportToExcel: views captured at the click
    columnSelectionConfig,  \* exportToExcel: saved selection per view
    options,                \* exportToExcel: the three option checkboxes
    viewIdx,                \* exportToExcel: position in selectedWorksheets
    workbook,               \* exportToExcel: sheets appended so far
    outcomes,               \* what the console reports for each view processed
    written,                \* the workbook handed to XLSX.writeFile, if any
    loading,                \* the loading indicator is active
    exportDisabled,         \* exportBtn.disabled
    status,                 \* last showStatus call
    events                  \* user actions and host events so far

avars == <<worksheets, checked, worksheetColumns, columnList, tasks, epc, selectedWorksheets,
           columnSelectionConfig, options, viewIdx, workbook, outcomes, written, loading,
           exportDisabled, status, events>>

VARIABLES
    fpc,        \* position of a direct call of one function of the transform engine
    fin,        \* the function called and its arguments
    fout        \* what the call returned, or that it raised

fvars == <<fpc, fin, fout>>

VARIABLES
    lpc,            \* position of loadWorksheets
    worksheetData,  \* loadWorksheets: the views fetched so far with their column counts
    worksheetList,  \* items of the #worksheetList element: view name and count badge
    settled         \* history: what the column fetch of each view settled with

lvars == <<lpc, worksheetData, worksheetList, settled>>

VARIABLES
    history     \* what has happened, for the properties that look back: the views
                \* with a filter or parameter event since the last selection
                \* change, the checked column items of those views at the export
                \* click, what the last view fetch of an export settled with,
                \* the page and the saved selection at the previous export click,
                \* for each pending column fetch whether a filter or parameter
                \* event on its view was delivered after it started, the views
                \* whose cached columns come from such a fetch, and whether a
                \* handleWorksheetSelection call started while another was pending

hvars == <<history>>

vars == <<tvars, avars, fvars, lvars, hvars>>

----------------------------------------------------------------------------
(* JavaScript values *)

Str(s) == [t |-> "str", n |-> 0, s |-> s]
Num(n) == [t |-> "num", n |-> n, s |-> <<>>]
DateVal(year, monthIndex) == [t |-> "date", n |-> year * 12 + monthIndex, s |-> <<>>]
Bool(b) == [t |-> "bool", n |-> IF b THEN 1 ELSE 0, s |-> <<>>]
Null == [t |-> "null", n |-> 0, s |-> <<>>]
Undefined == [t |-> "undef", n |-> 0, s |-> <<>>]
NaN == [t |-> "nan", n |-> 0, s |-> <<>>]
EmptyStr == Str(<<>>)

Range(f) == {f[i] : i \in DOMAIN f}

\* Array.prototype.indexOf / findIndex position of x (0 when absent).
IndexOf(seq, x) ==
    IF \E i \in DOMAIN seq : seq[i] = x
    THEN CHOOSE i \in DOMAIN seq : seq[i] = x /\ \A j \in 1..(i - 1) : seq[j] # x
    ELSE 0

UpperCase == <<"A","B","C","D","E","F","G","H","I","J","K","L","M",
               "N","O","P","Q","R","S","T","U","V","W","X","Y","Z">>
LowerCase == <<"a","b","c","d","e","f","g","h","i","j","k","l","m",
               "n","o","p","q","r","s","t","u","v","w","x","y","z">>
Digits == <<"0","1","2","3","4","5","6","7","8","9">>

IsDigit(c) == c \in Range(Digits)
IsAlpha(c) == c \in Range(UpperCase) \cup Range(LowerCase)
IsWhitespace(c) == c = " "
DigitVal(c) == IndexOf(Digits, c) - 1

toLowerChar(c) == IF c \in Range(UpperCase) THEN LowerCase[IndexOf(UpperCase, c)] ELSE c
toLowerCase(s) == [i \in 1..Len(s) |-> toLowerChar(s[i])]

RECURSIVE TrimLeft(_)
TrimLeft(s) == IF s # <<>> /\ IsWhitespace(Head(s)) THEN TrimLeft(Tail(s)) ELSE s
RECURSIVE TrimRight(_)
TrimRight(s) ==
    IF s # <<>> /\ IsWhitespace(s[Len(s)]) THEN TrimRight(SubSeq(s, 1, Len(s) - 1)) ELSE s
trim(s) == TrimRight(TrimLeft(s))

\* String.prototype.includes
Includes(s, sub) ==
    \E i \in 1..(Len(s) - Len(sub) + 1) : SubSeq(s, i, i + Len(sub) - 1) = sub

RECURSIVE NatToStr(_)
NatToStr(n) ==
    IF n < 10 THEN <<Digits[n + 1]>> ELSE NatToStr(n \div 10) \o <<Digits[(n % 10) + 1]>>
IntToStr(n) == IF n < 0 THEN <<"-">> \o NatToStr(-n) ELSE NatToStr(n)

\* String(v).  A Date renders as its long form, which starts with a weekday
\* name; only that it is neither a number nor a month-year string matters here.
JsString(v) ==
    CASE v.t = "str" -> v.s
      [] v.t = "num" -> IntToStr(v.n)
      [] v.t = "nan" -> <<"N","a","N">>
      [] v.t = "null" -> <<"n","u","l","l">>
      [] v.t = "undef" -> <<"u","n","d","e","f","i","n","e","d">>
      [] v.t = "date" -> <<"D","a","y"," ">> \o IntToStr(v.n \div 12)
      [] v.t = "bool" -> IF v.n = 1 THEN <<"t","r","u","e">> ELSE <<"f","a","l","s","e">>

\* JavaScript truthiness.
Truthy(v) ==
    CASE v.t = "str" -> v.s # <<>>
      [] v.t = "num" -> v.n # 0
      [] v.t = "date" -> TRUE
      [] v.t = "bool" -> v.n = 1
      [] OTHER -> FALSE

\* a ?? b
Coalesce(a, b) == IF a.t \in {"null", "undef"} THEN b ELSE a
\* a || b
OrElse(a, b) == IF Truthy(a) THEN a ELSE b

RECURSIVE ParseDigits(_, _)
ParseDigits(s, acc) ==
    IF s # <<>> /\ IsDigit(Head(s))
    THEN ParseDigits(Tail(s), acc * 10 + DigitVal(Head(s)))
    ELSE acc

\* parseFloat: leading whitespace, an optional sign, then the longest run of
\* digits; NaN when no digit follows.  (Fractions and exponents are not
\* modelled: no modelled input holds '.' or an exponent after its digits.)
parseUnsigned(u, sign) ==
    IF u # <<>> /\ IsDigit(Head(u)) THEN Num(sign * ParseDigits(u, 0)) ELSE NaN

parseSigned(s) ==
    IF s # <<>> /\ Head(s) = "-" THEN parseUnsigned(Tail(s), 0 - 1)
    ELSE IF s # <<>> /\ Head(s) = "+" THEN parseUnsigned(Tail(s), 1)
    ELSE parseUnsigned(s, 1)

parseFloat(v) ==
    IF v.t \in {"num", "nan"} THEN v ELSE parseSigned(TrimLeft(JsString(v)))

\* a + b on numbers
Add(a, b) == IF a.t = "nan" \/ b.t = "nan" THEN NaN ELSE Num(a.n + b.n)

RECURSIVE Join(_, _)
\* Array.prototype.join: null and undefined elements render as ''.
Join(vals, sep) ==
    IF vals = <<>> THEN <<>>
    ELSE (IF Head(vals).t \in {"null", "undef"} THEN <<>> ELSE JsString(Head(vals)))
         \o (IF Len(vals) = 1 THEN <<>> ELSE sep \o Join(Tail(vals), sep))

KeySeparator == <<"|","|","|">>

----------------------------------------------------------------------------
(* filterColumns: classification, row suppression, formatting *)

\* The row filter's classification of a column of the result set.
isMeasureType(dtype) ==
    \/ Includes(dtype, <<"i","n","t">>)
    \/ Includes(dtype, <<"f","l","o","a","t">>)
    \/ Includes(dtype, <<"r","e","a","l">>)
    \/ dtype = <<"n","u","m","b","e","r">>

isMeasureAll(col) == isMeasureType(toLowerCase(JsString(OrElse(col.dataType, EmptyStr))))

measureIndicesAll(dataTable) ==
    SelectSeq([i \in 1..Len(dataTable.columns) |-> i],
              LAMBDA i : isMeasureAll(dataTable.columns[i]))
dimensionIndicesAll(dataTable) ==
    SelectSeq([i \in 1..Len(dataTable.columns) |-> i],
              LAMBDA i : ~isMeasureAll(dataTable.columns[i]))

\* isNullish without the '(blank)' pattern.
\* The trimmed text the null and total tests look at.
trimmedText(s) == trim(JsString(OrElse(s, EmptyStr)))

NullLabels == {<<"n","u","l","l">>, <<"(","n","u","l","l",")">>}
BlankLabels == {<<"(","b","l","a","n","k",")">>}

nullishText(v, labels) == v = <<>> \/ toLowerCase(v) \in labels

isNullishNoBlank(s) == nullishText(trimmedText(s), NullLabels)

isNullish(s) == nullishText(trimmedText(s), NullLabels \cup BlankLabels)

\* isTotalLabel without the trim.
TotalLabels == {<<"t","o","t","a","l">>, <<"g","r","a","n","d"," ","t","o","t","a","l">>}

isTotalLabelNoTrim(s) == toLowerCase(JsString(OrElse(s, EmptyStr))) \in TotalLabels

isTotalLabel(s) == toLowerCase(trimmedText(s)) \in TotalLabels

\* v !== null && v !== undefined && v !== ''
NotEmptyValue(v) == v.t \notin {"null", "undef"} /\ v # EmptyStr

anyMeasureValue(measures, rowData) ==
    IF measures = <<>> THEN TRUE
    ELSE \E mi \in Range(measures) :
            NotEmptyValue(rowData[mi].value) \/ NotEmptyValue(rowData[mi].formattedValue)

hasMeasureValue(dataTable, rowData) == anyMeasureValue(measureIndicesAll(dataTable), rowData)

dimValsAt(dims, rowData) ==
    [k \in 1..Len(dims) |->
        OrElse(Coalesce(rowData[dims[k]].formattedValue, rowData[dims[k]].value), EmptyStr)]

dimValsAll(dataTable, rowData) == dimValsAt(dimensionIndicesAll(dataTable), rowData)

\* shouldSkipRow with the total-label test ahead of the measure-value test.
anyTotalLabel(vals) == \E k \in DOMAIN vals : isTotalLabel(vals[k])
hasNullDim(vals) == \E k \in DOMAIN vals : isNullish(vals[k])
hasNonNullDim(vals) == \E k \in DOMAIN vals : ~isNullish(vals[k])

\* The tests shouldSkipRow makes once the measure test and the dimension values
\* of the row are known.
skipDecision(hasMeasure, vals, includeNullsAcrossDimensions) ==
    IF ~hasMeasure THEN FALSE
    ELSE IF anyTotalLabel(vals) THEN TRUE
    ELSE IF includeNullsAcrossDimensions THEN FALSE
    ELSE IF hasNullDim(vals) THEN TRUE
    ELSE IF hasNullDim(vals) /\ hasNonNullDim(vals) THEN TRUE
    ELSE FALSE

\* skipDecision with the total-label test ahead of the measure-value test.
skipDecisionTotalFirst(hasMeasure, vals, includeNullsAcrossDimensions) ==
    IF anyTotalLabel(vals) THEN TRUE
    ELSE IF ~hasMeasure THEN FALSE
    ELSE IF includeNullsAcrossDimensions THEN FALSE
    ELSE hasNullDim(vals)

\* shouldSkipRow with the total-label test ahead of the measure-value test.
shouldSkipRowTotalFirst(dataTable, rowData, includeNullsAcrossDimensions) ==
    skipDecisionTotalFirst(hasMeasureValue(dataTable, rowData), dimValsAll(dataTable, rowData),
                           includeNullsAcrossDimensions)

shouldSkipRow(dataTable, rowData, includeNullsAcrossDimensions) ==
    skipDecision(hasMeasureValue(dataTable, rowData), dimValsAll(dataTable, rowData),
                 includeNullsAcrossDimensions)

MonthFull == << <<"J","a","n","u","a","r","y">>, <<"F","e","b","r","u","a","r","y">>,
                <<"M","a","r","c","h">>, <<"A","p","r","i","l">>, <<"M","a","y">>,
                <<"J","u","n","e">>, <<"J","u","l","y">>, <<"A","u","g","u","s","t">>,
                <<"S","e","p","t","e","m","b","e","r">>, <<"O","c","t","o","b","e","r">>,
                <<"N","o","v","e","m","b","e","r">>, <<"D","e","c","e","m","b","e","r">> >>
MonthShort == << <<"J","a","n">>, <<"F","e","b">>, <<"M","a","r">>, <<"A","p","r">>,
                 <<"M","a","y">>, <<"J","u","n">>, <<"J","u","l">>, <<"A","u","g">>,
                 <<"S","e","p">>, <<"O","c","t">>, <<"N","o","v">>, <<"D","e","c">> >>

\* /^[A-Za-z]{3}-\d{4}$/
shortDatePattern(s) ==
    /\ Len(s) = 8
    /\ \A i \in 1..3 : IsAlpha(s[i])
    /\ s[4] = "-"
    /\ \A i \in 5..8 : IsDigit(s[i])

\* /^[A-Za-z]+ \d{4}$/
monthYearPattern(s) ==
    /\ Len(s) >= 6
    /\ \A i \in 1..(Len(s) - 5) : IsAlpha(s[i])
    /\ s[Len(s) - 4] = " "
    /\ \A i \in (Len(s) - 3)..Len(s) : IsDigit(s[i])

\* typeof value === 'number' ? value : parseFloat(value)
numValue(value) == IF value.t \in {"num", "nan"} THEN value ELSE parseFloat(value)

\* formatNumber without the isNaN test.
formatNumberUnchecked(num, formattedValue) == num

\* isNaN(numValue) ? formattedValue : numValue
formatNumber(num, formattedValue) == IF num.t = "nan" THEN formattedValue ELSE num

\* monthMap[month] || month.substring(0, 3)
shortMonth(month) ==
    IF IndexOf(MonthFull, month) > 0 THEN MonthShort[IndexOf(MonthFull, month)]
    ELSE SubSeq(month, 1, IF Len(month) < 3 THEN Len(month) ELSE 3)

\* The date branch, fs being String(formattedValue).
formatDate(value, formattedValue, fs, exportType) ==
    IF exportType = "date" /\ shortDatePattern(fs) THEN formattedValue
    ELSE IF exportType = "date" /\ monthYearPattern(fs)
    THEN Str(shortMonth(SubSeq(fs, 1, Len(fs) - 5)) \o <<"-">>
             \o SubSeq(fs, Len(fs) - 3, Len(fs)))
    ELSE IF exportType = "date" /\ value.t = "date"
    THEN Str(MonthShort[(value.n % 12) + 1] \o <<"-">> \o IntToStr(value.n \div 12))
    ELSE formattedValue

\* The calls of formatValue that can raise: formattedValue.split(' ') is reached
\* when the text of the display value matches the month-year pattern and not
\* the short pattern, and raises when the display value is not a string;
\* value.getMonth() is reached only for a Date.
formatValueThrows(value, formattedValue, exportType) ==
    /\ exportType = "date"
    /\ ~shortDatePattern(JsString(formattedValue))
    /\ monthYearPattern(JsString(formattedValue))
    /\ formattedValue.t # "str"

formatValue(value, formattedValue, exportType) ==
    IF exportType = "undefined" \/ exportType = "text" THEN formattedValue
    ELSE IF exportType = "number" THEN formatNumber(numValue(value), formattedValue)
    ELSE IF exportType = "date" \/ exportType = "date-full"
    THEN formatDate(value, formattedValue, JsString(formattedValue), exportType)
    ELSE formattedValue


\* exportTypes ? exportTypes[idx] : fallback
typeAt(exportTypes, pos, fallback) ==
    IF exportTypes.defined
    THEN IF pos \in DOMAIN exportTypes.types THEN exportTypes.types[pos] ELSE "undefined"
    ELSE fallback

\* The aggregate branch's classification of a selected column.
isDimensionSel(col) ==
    LET dataType == toLowerCase(col.dataType.s)
    IN ~(Includes(dataType, <<"i","n","t">>)
         \/ Includes(dataType, <<"f","l","o","a","t">>)
         \/ Includes(dataType, <<"r","e","a","l">>))

dimensionIndices(dataTable, selectedIndices) ==
    SelectSeq(selectedIndices, LAMBDA c : isDimensionSel(dataTable.columns[c]))
measureIndices(dataTable, selectedIndices) ==
    SelectSeq(selectedIndices, LAMBDA c : ~isDimensionSel(dataTable.columns[c]))

\* typeof value === 'number' ? value : parseFloat(value) || 0
groupNumValue(value) ==
    IF value.t \in {"num", "nan"} THEN value ELSE OrElse(parseFloat(value), Num(0))

RECURSIVE aggregated(_, _, _, _, _)
\* The insertion-ordered Map of groups after rows 1..i of the grouped branch.
\* Position of the group with this key in the Map, 0 when there is none.
groupOf(groups, key) == IndexOf([g \in 1..Len(groups) |-> groups[g].key], key)

\* if (!aggregated.has(key)) aggregated.set(key, {...})
withGroup(groups, key, dimValues, measIdx) ==
    IF groupOf(groups, key) = 0
    THEN Append(groups, [key |-> key,
                         dimensions |-> dimValues,
                         measures |-> [k \in 1..Len(measIdx) |-> Num(0)],
                         count |-> 0])
    ELSE groups

\* The row's measures added into group g.
addMeasures(groups, g, rowData, measIdx) ==
    [groups EXCEPT
        ![g].measures = [k \in 1..Len(measIdx) |->
                            Add(@[k], groupNumValue(rowData[measIdx[k]].value))],
        ![g].count = @ + 1]

\* One row that is not skipped, grouped under its key.
groupedUnder(groups, key, dimValues, rowData, measIdx) ==
    addMeasures(withGroup(groups, key, dimValues, measIdx),
                IF groupOf(groups, key) = 0 THEN Len(groups) + 1 ELSE groupOf(groups, key),
                rowData, measIdx)

rowDimValues(rowData, dimIdx) == [k \in 1..Len(dimIdx) |-> rowData[dimIdx[k]].formattedValue]

aggregateRow(groups, dataTable, rowData, dimValues, measIdx, includeNulls) ==
    IF shouldSkipRow(dataTable, rowData, includeNulls) THEN groups
    ELSE groupedUnder(groups, Join(dimValues, KeySeparator), dimValues, rowData, measIdx)

aggregated(dataTable, dimIdx, measIdx, includeNulls, i) ==
    IF i = 0 THEN <<>>
    ELSE aggregateRow(aggregated(dataTable, dimIdx, measIdx, includeNulls, i - 1),
                      dataTable, dataTable.data[i], rowDimValues(dataTable.data[i], dimIdx),
                      measIdx, includeNulls)

\* One output row of the grouped branch, cells placed by selectedIndices.indexOf.
\* The group's value for column c and the type it falls back to.
groupCell(group, c, dimIdx, measIdx) ==
    IF IndexOf(measIdx, c) > 0
    THEN [value |-> group.measures[IndexOf(measIdx, c)], fallback |-> "number"]
    ELSE [value |-> group.dimensions[IndexOf(dimIdx, c)], fallback |-> "text"]

formatCell(cell, exportTypes, p) ==
    formatValue(cell.value, cell.value, typeAt(exportTypes, p, cell.fallback))

groupRow(group, selectedIndices, dimIdx, measIdx, exportTypes) ==
    [p \in 1..Len(selectedIndices) |->
        IF IndexOf(selectedIndices, selectedIndices[p]) # p THEN Undefined
        ELSE formatCell(groupCell(group, selectedIndices[p], dimIdx, measIdx), exportTypes, p)]

\* One output row of the distinct and passthrough branches.
formattedRow(rowData, selectedIndices, exportTypes) ==
    [p \in 1..Len(selectedIndices) |->
        formatValue(rowData[selectedIndices[p]].value,
                    rowData[selectedIndices[p]].formattedValue,
                    typeAt(exportTypes, p, "text"))]

RECURSIVE distinctRows(_, _, _, _, _)
\* Rows pushed by the distinct branch after rows 1..i; the Set of row keys is
\* the set of keys of the rows pushed so far.
\* if (!seen.has(rowKey)) { seen.add(rowKey); filteredData.push(row) }
pushDistinct(rows, row) ==
    IF \E j \in DOMAIN rows : Join(rows[j], KeySeparator) = Join(row, KeySeparator) THEN rows
    ELSE Append(rows, row)

distinctRow(rows, dataTable, rowData, selectedIndices, exportTypes, includeNulls) ==
    IF shouldSkipRow(dataTable, rowData, includeNulls) THEN rows
    ELSE pushDistinct(rows, formattedRow(rowData, selectedIndices, exportTypes))

distinctRows(dataTable, selectedIndices, exportTypes, includeNulls, i) ==
    IF i = 0 THEN <<>>
    ELSE distinctRow(distinctRows(dataTable, selectedIndices, exportTypes, includeNulls, i - 1),
                     dataTable, dataTable.data[i], selectedIndices, exportTypes, includeNulls)

RECURSIVE allRows(_, _, _, _, _)
\* Rows pushed by the branch without aggregation after rows 1..i.
plainRow(rows, dataTable, rowData, selectedIndices, exportTypes, includeNulls) ==
    IF shouldSkipRow(dataTable, rowData, includeNulls) THEN rows
    ELSE Append(rows, formattedRow(rowData, selectedIndices, exportTypes))

\* allRows dropping the rows it has pushed before.
allRowsDeduplicated(dataTable, selectedIndices, exportTypes, includeNulls, i) ==
    distinctRows(dataTable, selectedIndices, exportTypes, includeNulls, i)

allRows(dataTable, selectedIndices, exportTypes, includeNulls, i) ==
    IF i = 0 THEN <<>>
    ELSE plainRow(allRows(dataTable, selectedIndices, exportTypes, includeNulls, i - 1),
                  dataTable, dataTable.data[i], selectedIndices, exportTypes, includeNulls)

\* dataTable.columns[colIndex].dataType.toLowerCase() raises on a missing type.
filterColumnsThrows(dataTable, selectedIndices, aggregateData) ==
    aggregateData /\ \E p \in DOMAIN selectedIndices :
                        dataTable.columns[selectedIndices[p]].dataType.t # "str"

\* groupRows emitting the groups last-created first.
groupRowsReversed(groups, selectedIndices, dimIdx, measIdx, exportTypes) ==
    [g \in 1..Len(groups) |->
        groupRow(groups[Len(groups) + 1 - g], selectedIndices, dimIdx, measIdx, exportTypes)]

\* aggregated.forEach(group => filteredData.push(row))
groupRows(groups, selectedIndices, dimIdx, measIdx, exportTypes) ==
    [g \in 1..Len(groups) |-> groupRow(groups[g], selectedIndices, dimIdx, measIdx, exportTypes)]

\* The rows under the header when duplicate rows are not wanted.
aggregateRows(dataTable, selectedIndices, dimIdx, measIdx, exportTypes, includeNulls) ==
    IF Len(dimIdx) > 0 /\ Len(measIdx) > 0
    THEN groupRows(aggregated(dataTable, dimIdx, measIdx, includeNulls, Len(dataTable.data)),
                   selectedIndices, dimIdx, measIdx, exportTypes)
    ELSE distinctRows(dataTable, selectedIndices, exportTypes, includeNulls,
                      Len(dataTable.data))

headerRow(selectedNames) == [p \in 1..Len(selectedNames) |-> Str(selectedNames[p])]

filterColumns(dataTable, selectedIndices, selectedNames, aggregateData, exportTypes, includeNullsAcrossDimensions) ==
    <<headerRow(selectedNames)>> \o
    IF aggregateData
    THEN aggregateRows(dataTable, selectedIndices,
                       dimensionIndices(dataTable, selectedIndices),
                       measureIndices(dataTable, selectedIndices),
                       exportTypes, includeNullsAcrossDimensions)
    ELSE allRows(dataTable, selectedIndices, exportTypes, includeNullsAcrossDimensions,
                 Len(dataTable.data))


----------------------------------------------------------------------------
(* sortDataRows, sanitizeSheetName, calculateColumnWidths *)

\* Code-unit order of the printable characters the model uses.
Ascii == <<" ","!","\"","#","$","%","&","'","(",")","*","+",",","-",".","/",
           "0","1","2","3","4","5","6","7","8","9",":",";","<","=",">","?","@",
           "A","B","C","D","E","F","G","H","I","J","K","L","M",
           "N","O","P","Q","R","S","T","U","V","W","X","Y","Z",
           "[","\\","]","^","_",
           "a","b","c","d","e","f","g","h","i","j","k","l","m",
           "n","o","p","q","r","s","t","u","v","w","x","y","z",
           "{","|","}","~">>
CharCode(c) == IndexOf(Ascii, c)

RECURSIVE StrLess(_, _)
\* a < b on strings
StrLess(a, b) ==
    IF b = <<>> THEN FALSE
    ELSE IF a = <<>> THEN TRUE
    ELSE IF Head(a) = Head(b) THEN StrLess(Tail(a), Tail(b))
    ELSE CharCode(Head(a)) < CharCode(Head(b))

NegInfinity == [k |-> "neginf", n |-> 0, s |-> <<>>]
NumKey(n) == [k |-> "num", n |-> n, s |-> <<>>]
StrKey(s) == [k |-> "str", n |-> 0, s |-> s]

\* The instant of the first of a month, counted in months: new Date(y, m, 1)
\* is increasing in y * 12 + m.  A string of neither month-year shape goes to
\* the generic Date.parse, taken here as not parseable.
\* new Date(year, monthMap[first three letters], 1), when the month is known.
monthInstant(year, month) ==
    IF month > 0 THEN NumKey(ParseDigits(year, 0) * 12 + month - 1) ELSE NegInfinity

parseDateString(str) ==
    IF str = <<>> THEN NegInfinity
    ELSE IF shortDatePattern(str)
    THEN monthInstant(SubSeq(str, 5, 8), IndexOf(MonthShort, SubSeq(str, 1, 3)))
    ELSE IF monthYearPattern(str) /\ Len(str) >= 8
    THEN monthInstant(SubSeq(str, Len(str) - 3, Len(str)),
                      IndexOf(MonthShort, SubSeq(str, 1, 3)))
    ELSE NegInfinity

parseDateValue(value) ==
    IF value.t = "date" THEN NumKey(value.n) ELSE parseDateString(trimmedText(value))

\* isNaN(n) ? -Infinity : n
numberKey(n) == IF n.t = "nan" THEN NegInfinity ELSE NumKey(n.n)

normalize(value, exportType) ==
    IF exportType = "number" THEN numberKey(numValue(value))
    ELSE IF exportType = "date" \/ exportType = "date-full"
    THEN parseDateValue(value)
    ELSE StrKey(toLowerCase(JsString(OrElse(value, EmptyStr))))

\* aVal < bVal
KeyLess(a, b) ==
    IF a.k = "str" /\ b.k = "str" THEN StrLess(a.s, b.s)
    ELSE IF a.k = "neginf" THEN b.k = "num"
    ELSE IF b.k = "neginf" THEN FALSE
    ELSE a.n < b.n

cellAt(row, sortIndex) == IF sortIndex \in DOMAIN row THEN row[sortIndex] ELSE Undefined

\* The comparator handed to rows.sort: negative when a sorts before b.
compareKeys(aVal, bVal, direction) ==
    IF KeyLess(aVal, bVal) THEN (IF direction = "asc" THEN 0 - 1 ELSE 1)
    ELSE IF KeyLess(bVal, aVal) THEN (IF direction = "asc" THEN 1 ELSE 0 - 1)
    ELSE 0

compareRows(a, b, sortIndex, direction, exportType) ==
    compareKeys(normalize(cellAt(a, sortIndex), exportType),
                normalize(cellAt(b, sortIndex), exportType), direction)

RECURSIVE stableSort(_, _, _, _)
\* Array.prototype.sort, which is stable: each row goes after every row
\* already placed that does not sort after it.
InsertAt(seq, c, x) == SubSeq(seq, 1, c) \o <<x>> \o SubSeq(seq, c + 1, Len(seq))

\* placeRow putting x ahead of the rows it ties with.
placeRowBeforeTies(front, x, sortIndex, direction, exportType) ==
    InsertAt(front,
             Cardinality({j \in DOMAIN front :
                            compareRows(front[j], x, sortIndex, direction, exportType) < 0}),
             x)

\* x placed after the rows of the sorted front that do not sort after it.
placeRow(front, x, sortIndex, direction, exportType) ==
    InsertAt(front,
             Cardinality({j \in DOMAIN front :
                            compareRows(front[j], x, sortIndex, direction, exportType) <= 0}),
             x)

stableSort(rows, sortIndex, direction, exportType) ==
    IF rows = <<>> THEN <<>>
    ELSE placeRow(stableSort(SubSeq(rows, 1, Len(rows) - 1), sortIndex, direction, exportType),
                  rows[Len(rows)], sortIndex, direction, exportType)

sortDataRows(data, sortIndex, direction, exportType) ==
    IF Len(data) <= 1 \/ sortIndex < 1 THEN data
    ELSE <<data[1]>> \o stableSort(Tail(data), sortIndex, direction, exportType)

\* sanitizeSheetName without the cut at 31 characters.
sanitizeSheetNameUncut(name) ==
    [i \in 1..Len(name) |->
        IF name[i] \in {"\\", "/", "?", "*", "[", "]"} THEN "_" ELSE name[i]]

sanitizeSheetName(name) ==
    LET sanitized == [i \in 1..Len(name) |->
                         IF name[i] \in {"\\", "/", "?", "*", "[", "]"} THEN "_" ELSE name[i]]
    IN IF Len(sanitized) > 31 THEN SubSeq(sanitized, 1, 31) ELSE sanitized

Max(a, b) == IF a > b THEN a ELSE b
Min(a, b) == IF a < b THEN a ELSE b

RECURSIVE colWidth(_, _, _)
\* maxWidth of one column after the first i rows.
widen(w, row, col) ==
    IF col \in DOMAIN row /\ Truthy(row[col])
    THEN Max(w, Min(Len(JsString(row[col])), 50))
    ELSE w

colWidth(data, col, i) ==
    IF i = 0 THEN 10 ELSE widen(colWidth(data, col, i - 1), data[i], col)

RECURSIVE maxRowLength(_)
maxRowLength(data) ==
    IF data = <<>> THEN 0 ELSE Max(Len(Head(data)), maxRowLength(Tail(data)))

calculateColumnWidths(data) ==
    IF data = <<>> THEN <<>>
    ELSE [col \in 1..maxRowLength(data) |-> colWidth(data, col, Len(data))]

----------------------------------------------------------------------------
(* exportToExcel: the body run for one view once its result set arrived *)

fieldNames(dataTable) == [i \in 1..Len(dataTable.columns) |-> dataTable.columns[i].fieldName]

UndefinedTypes == [defined |-> FALSE, types |-> <<>>]
Types(seq) == [defined |-> TRUE, types |-> seq]

\* resolveColumns reading output names and types at the position in the
\* resolved list instead of the position in the saved selection.
\* Positions of the saved selection whose field name the fresh result set has.
keptPositions(fresh, wsColumns) ==
    SelectSeq([i \in 1..Len(wsColumns.originalNames) |-> i],
              LAMBDA i : IndexOf(fresh, wsColumns.originalNames[i]) > 0)

\* Indices come from the kept positions; names and types are read at `from`.
mappingOf(fresh, kept, from, wsColumns) ==
    [mappedIndices |-> [k \in 1..Len(kept) |->
                           IndexOf(fresh, wsColumns.originalNames[kept[k]])],
     mappedNames |-> [k \in 1..Len(kept) |-> wsColumns.names[from[k]]],
     mappedTypes |-> [k \in 1..Len(kept) |->
                         typeAt(wsColumns.exportTypes, from[k], "text")]]

mappingByPosition(fresh, kept, wsColumns) ==
    mappingOf(fresh, kept, [k \in 1..Len(kept) |-> k], wsColumns)

mappingByName(fresh, kept, wsColumns) == mappingOf(fresh, kept, kept, wsColumns)

resolveColumnsByPosition(dataTable, wsColumns) ==
    mappingByPosition(fieldNames(dataTable),
                      keptPositions(fieldNames(dataTable), wsColumns), wsColumns)

\* The saved selection matched by field name against the fresh result set.
resolveColumns(dataTable, wsColumns) ==
    mappingByName(fieldNames(dataTable),
                  keptPositions(fieldNames(dataTable), wsColumns), wsColumns)

NoMapping == [mappedIndices |-> <<>>, mappedNames |-> <<>>, mappedTypes |-> <<>>]
NullData == [isNull |-> TRUE, rows |-> <<>>]
Data(rows) == [isNull |-> FALSE, rows |-> rows]

\* Which of the three branches of the column choice the view takes.
usesSelection(wsColumns) == wsColumns.present /\ Len(wsColumns.originalNames) > 0
explicitlyEmpty(wsColumns) == wsColumns.present /\ Len(wsColumns.originalNames) = 0

viewThrows(dataTable, wsColumns, aggregateData) ==
    IF usesSelection(wsColumns)
    THEN /\ Len(resolveColumns(dataTable, wsColumns).mappedIndices) > 0
         /\ filterColumnsThrows(dataTable, resolveColumns(dataTable, wsColumns).mappedIndices,
                                aggregateData)
    ELSE IF explicitlyEmpty(wsColumns) THEN FALSE
    ELSE filterColumnsThrows(dataTable, [i \in 1..Len(dataTable.columns) |-> i], aggregateData)

\* `data` before the sort.
\* The arguments the view hands to filterColumns, or that it does not call it.
NoCall == [call |-> FALSE, indices |-> <<>>, names |-> <<>>, types |-> UndefinedTypes]
Call(indices, names, types) ==
    [call |-> TRUE, indices |-> indices, names |-> names, types |-> types]

\* if (mappedIndices.length > 0) data = filterColumns(..., mappedIndices, mappedNames, ...)
mappedCall(m) ==
    IF Len(m.mappedIndices) > 0
    THEN Call(m.mappedIndices, m.mappedNames, Types(m.mappedTypes))
    ELSE NoCall

\* The three branches on the saved selection: a selection with columns, a
\* selection without columns, no saved selection (all columns, no types).
filterCall(dataTable, wsColumns) ==
    IF usesSelection(wsColumns) THEN mappedCall(resolveColumns(dataTable, wsColumns))
    ELSE IF explicitlyEmpty(wsColumns) THEN NoCall
    ELSE Call([i \in 1..Len(dataTable.columns) |-> i], fieldNames(dataTable), UndefinedTypes)

calledData(dataTable, c, aggregateData, includeNulls) ==
    IF c.call
    THEN Data(filterColumns(dataTable, c.indices, c.names, aggregateData, c.types,
                            includeNulls))
    ELSE NullData

selectedData(dataTable, wsColumns, aggregateData, includeNulls) ==
    calledData(dataTable, filterCall(dataTable, wsColumns), aggregateData, includeNulls)

\* `data` after the sort.
\* if (data && data.length > 1 && wsColumns && wsColumns.sortIndex >= 0) sortDataRows(...)
sortedData(data, wsColumns) ==
    IF ~data.isNull /\ Len(data.rows) > 1 /\ wsColumns.present /\ wsColumns.sortIndex >= 1
    THEN Data(sortDataRows(data.rows, wsColumns.sortIndex,
                           IF wsColumns.sortDirection = "" THEN "asc"
                           ELSE wsColumns.sortDirection,
                           typeAt(wsColumns.exportTypes, wsColumns.sortIndex, "text")))
    ELSE data

viewData(dataTable, wsColumns, aggregateData, includeNulls) ==
    sortedData(selectedData(dataTable, wsColumns, aggregateData, includeNulls), wsColumns)

\* viewSheets appending only when there is a row under the header.
viewSheetsNeedsBody(worksheetName, data) ==
    IF ~data.isNull /\ Len(data.rows) > 1
    THEN << [name |-> sanitizeSheetName(worksheetName),
             data |-> data.rows,
             cols |-> calculateColumnWidths(data.rows)] >>
    ELSE <<>>

\* The sheet appended for the view, if any.
viewSheets(worksheetName, data) ==
    IF ~data.isNull /\ Len(data.rows) > 0
    THEN << [name |-> sanitizeSheetName(worksheetName),
             data |-> data.rows,
             cols |-> calculateColumnWidths(data.rows)] >>
    ELSE <<>>


----------------------------------------------------------------------------
(* The page: worksheet list, column panels, column cache, status *)

Status(type, msg) == [type |-> type, msg |-> msg]
NoStatus == Status("none", "")
NoOptions == [aggregateData |-> TRUE, includeDashboardFilters |-> FALSE,
              includeNullsAcrossDimensions |-> FALSE]
NotWritten == [done |-> FALSE, sheets |-> <<>>, ok |-> FALSE]
Written(sheets, ok) == [done |-> TRUE, sheets |-> sheets, ok |-> ok]

\* Array.from(checkedBoxes).map(cb => cb.value): the checked names in list order.
checkedNames(list, boxes) == SelectSeq(list, LAMBDA n : n \in boxes)

\* A Map as a function on its keys.
MapHas(map, key) == key \in DOMAIN map
MapSet(map, key, value) ==
    [k \in (DOMAIN map) \cup {key} |-> IF k = key THEN value ELSE map[k]]
MapDelete(map, key) == [k \in (DOMAIN map) \ {key} |-> map[k]]
EmptyMap == <<>>

AggregationNames ==
    { <<"s","u","m">>, <<"a","v","g">>, <<"c","o","u","n","t">>, <<"m","i","n">>,
      <<"m","a","x">>, <<"c","o","u","n","t","d">>, <<"m","e","d","i","a","n">>,
      <<"s","t","d","e","v">>, <<"s","t","d","e","v","p">>, <<"v","a","r">>,
      <<"v","a","r","p">>, <<"p","e","r","c","e","n","t","i","l","e">>,
      <<"a","t","t","r">>, <<"a","g","g">> }

\* /^(SUM|AVG|...|AGG)\((.*)\)$/i : the text between the first '(' and the final ')'.
getDisplayName(fieldName) ==
    LET open == IndexOf(fieldName, "(")
    IN IF /\ open > 1
          /\ fieldName[Len(fieldName)] = ")"
          /\ toLowerCase(SubSeq(fieldName, 1, open - 1)) \in AggregationNames
       THEN SubSeq(fieldName, open + 1, Len(fieldName) - 1)
       ELSE fieldName

\* The export type a column item starts with.
defaultExportType(column) ==
    LET dataType == toLowerCase(column.dataType.s)
    IN IF Includes(dataType, <<"d","a","t","e">>) THEN "date"
       ELSE IF Includes(dataType, <<"i","n","t">>) THEN "number"
       ELSE IF Includes(dataType, <<"f","l","o","a","t">>)
               \/ Includes(dataType, <<"r","e","a","l">>) THEN "number"
       ELSE "text"

\* column.dataType.toLowerCase() raises when a column has no declared type.
panelThrows(columns) == \E i \in DOMAIN columns : columns[i].dataType.t # "str"

columnItems(columns) ==
    [i \in 1..Len(columns) |->
        [originalName |-> columns[i].fieldName,
         checked |-> TRUE,
         rename |-> getDisplayName(columns[i].fieldName),
         exportType |-> defaultExportType(columns[i])]]

Panel(kind, worksheetName, columns) ==
    [kind |-> kind, worksheet |-> worksheetName, items |-> columnItems(columns),
     sortField |-> <<>>, sortDirection |-> "asc"]

\* displayColumnSelection: what #columnList holds afterwards.
displayColumnSelection(columns, worksheetName) ==
    IF Len(columns) = 0 THEN <<>>
    ELSE << Panel("single", worksheetName, columns) >>

\* Position of the first view from k on whose columns are not cached, else 0.
firstUncached(selected, k, wc) ==
    LET missing == {j \in k..Len(selected) : ~MapHas(wc, selected[j])}
    IN IF missing = {} THEN 0 ELSE CHOOSE j \in missing : \A i \in missing : j <= i

\* The second loop of the tabs branch: one tab-content panel per selected view,
\* appended to #columnList; a view without cached columns or a column without a
\* declared type raises, and the catch replaces the list by the error text.
buildTabs(selected, wc, list) ==
    IF \E j \in DOMAIN selected :
          ~MapHas(wc, selected[j]) \/ panelThrows(wc[selected[j]])
    THEN <<>>
    ELSE list \o [j \in 1..Len(selected) |-> Panel("tab", selected[j], wc[selected[j]])]

NoTask == <<>>
Awaiting(selected, k) == << [selected |-> selected, k |-> k] >>

\* handleWorksheetSelection from view k on, up to its next await or its end:
\* the resulting #columnList and the call left awaiting a fetch, if any.
runSelection(selected, k, wc, list) ==
    IF Len(selected) > 1
    THEN LET u == firstUncached(selected, k, wc)
         IN IF u > 0
            THEN [columnList |-> list, awaiting |-> Awaiting(selected, u)]
            ELSE [columnList |-> buildTabs(selected, wc, list), awaiting |-> NoTask]
    ELSE IF ~MapHas(wc, selected[1])
         THEN [columnList |-> list, awaiting |-> Awaiting(selected, 1)]
         ELSE [columnList |-> IF panelThrows(wc[selected[1]]) THEN <<>>
                              ELSE displayColumnSelection(wc[selected[1]], selected[1]),
               awaiting |-> NoTask]

\* handleWorksheetSelection from its call to its first await or its end.
startSelection(selected, wc, list) ==
    IF Len(selected) = 0 THEN [columnList |-> list, awaiting |-> NoTask]
    ELSE runSelection(selected, 1, wc, <<>>)

columnNames(columns) == [i \in 1..Len(columns) |-> columns[i].fieldName]

\* The saved selection read from the checked column items of a panel.
\* window.worksheetColumns?.get(worksheetName) || []
cachedColumns(wc, worksheetName) == IF MapHas(wc, worksheetName) THEN wc[worksheetName] ELSE <<>>

\* The checked items whose column the cached result set still has.
keptItems(items, cachedNames) ==
    SelectSeq(items, LAMBDA item : item.checked /\ IndexOf(cachedNames, item.originalName) > 0)

originalNamesOf(kept) == [i \in 1..Len(kept) |-> kept[i].originalName]

\* renameInput.value.trim() || originalName
outputName(item) == IF trim(item.rename) = <<>> THEN item.originalName ELSE trim(item.rename)

\* sortField ? selectedColumnOriginalNames.indexOf(sortField) : -1
sortIndexOf(originalNames, sortField) ==
    IF sortField # <<>> THEN IndexOf(originalNames, sortField) ELSE 0

savedSelection(kept, cachedNames, sortField, sortDirection, sortIndex) ==
    [present |-> TRUE,
     indices |-> [i \in 1..Len(kept) |-> IndexOf(cachedNames, kept[i].originalName)],
     names |-> [i \in 1..Len(kept) |-> outputName(kept[i])],
     originalNames |-> originalNamesOf(kept),
     exportTypes |-> Types([i \in 1..Len(kept) |-> kept[i].exportType]),
     sortField |-> IF sortIndex = 0 THEN <<>> ELSE sortField,
     sortDirection |-> sortDirection,
     sortIndex |-> sortIndex]

captureKept(kept, cachedNames, sortField, sortDirection) ==
    savedSelection(kept, cachedNames, sortField, sortDirection,
                   sortIndexOf(originalNamesOf(kept), sortField))

captureItems(items, cachedNames, sortField, sortDirection) ==
    captureKept(keptItems(items, cachedNames), cachedNames, sortField, sortDirection)

captureEntry(items, sortField, sortDirection, wc, worksheetName) ==
    captureItems(items, columnNames(cachedColumns(wc, worksheetName)), sortField,
                 sortDirection)

RECURSIVE captureTabs(_, _, _, _)
\* The Map filled from the first p tab-content panels of selected views.
capturePanel(config, panel, selected, wc) ==
    IF panel.kind = "tab" /\ panel.worksheet \in Range(selected)
    THEN MapSet(config, panel.worksheet,
                captureEntry(panel.items, panel.sortField, panel.sortDirection,
                             wc, panel.worksheet))
    ELSE config

captureTabs(selected, list, wc, p) ==
    IF p = 0 THEN EmptyMap
    ELSE capturePanel(captureTabs(selected, list, wc, p - 1), list[p], selected, wc)

RECURSIVE allItems(_, _)
\* columnList.querySelectorAll('.column-item') over the first p panels.
allItems(list, p) == IF p = 0 THEN <<>> ELSE allItems(list, p - 1) \o list[p].items

\* The local worksheetColumns Map of exportToExcel.
\* The single-view mode, taken when no tab-content panel of a selected view exists.
captureSingle(tabs, selected, list, wc) ==
    IF Len(selected) = 1 /\ DOMAIN tabs = {}
    THEN MapSet(tabs, selected[1],
                captureEntry(allItems(list, Len(list)),
                             IF Len(list) > 0 THEN list[1].sortField ELSE <<>>,
                             IF Len(list) > 0 THEN list[1].sortDirection ELSE "asc",
                             wc, selected[1]))
    ELSE tabs

captureConfig(selected, list, wc) ==
    captureSingle(captureTabs(selected, list, wc, Len(list)), selected, list, wc)

\* window.worksheetColumns after the keysToDelete loop of exportToExcel.
clearCache(wc, selected) ==
    [k \in {key \in DOMAIN wc : key \notin Range(selected)} |-> wc[k]]

\* columnSelectionConfig.get(worksheetName)
configOf(config, worksheetName) ==
    IF MapHas(config, worksheetName) THEN config[worksheetName]
    ELSE [present |-> FALSE, indices |-> <<>>, names |-> <<>>, originalNames |-> <<>>,
          exportTypes |-> Types(<<>>), sortField |-> <<>>, sortDirection |-> "asc",
          sortIndex |-> 0]

Rejected == [rejected |-> TRUE, table |-> [columns |-> <<>>, data |-> <<>>]]
Resolved(table) == [rejected |-> FALSE, table |-> table]

sheetNames(sheets) == [i \in 1..Len(sheets) |-> sheets[i].name]

FilterSheetName ==
    <<"D","a","s","h","b","o","a","r","d"," ","F","i","l","t","e","r","s">>

\* XLSX.utils.book_append_sheet rejects a blank name, a name of more than 31
\* characters, a name with one of : ] [ * ? / \ and a name the workbook has.
appendThrows(sheets, name) ==
    \/ Len(name) = 0
    \/ Len(name) > 31
    \/ \E i \in DOMAIN name : name[i] \in {":", "]", "[", "*", "?", "/", "\\"}
    \/ name \in Range(sheetNames(sheets))

\* The filter-summary sheet: collectDashboardFilters always returns at least its
\* header row, so the sheet is appended whenever it was asked for.
filterSheet ==
    [name |-> FilterSheetName,
     data |-> << << Str(<<"D","A","S","H","B","O","A","R","D"," ","E","X","P","O","R","T",
                          " ","S","U","M","M","A","R","Y">>) >> >>,
     cols |-> <<30, 50>>]

\* The try block of one pass of the view loop on the fetch's response: the
\* workbook afterwards and what the console reports for the view.
\* The end of the try block: the sheet, if there is one, appended to the workbook.
\* appendView putting the new sheet in front of the workbook's sheets.
appendViewInFront(sheets, new, data) ==
    IF new = <<>>
    THEN [workbook |-> sheets, outcome |-> IF data.isNull THEN "skipped" ELSE "empty"]
    ELSE IF appendThrows(sheets, new[1].name)
    THEN [workbook |-> sheets, outcome |-> "failed"]
    ELSE [workbook |-> new \o sheets, outcome |-> "appended"]

appendView(sheets, new, data) ==
    IF new = <<>>
    THEN [workbook |-> sheets, outcome |-> IF data.isNull THEN "skipped" ELSE "empty"]
    ELSE IF appendThrows(sheets, new[1].name)
    THEN [workbook |-> sheets, outcome |-> "failed"]
    ELSE [workbook |-> sheets \o new, outcome |-> "appended"]

processData(sheets, worksheetName, data) ==
    appendView(sheets, viewSheets(worksheetName, data), data)

processView(sheets, worksheetName, response, wsColumns, opts) ==
    IF response.rejected THEN [workbook |-> sheets, outcome |-> "failed"]
    ELSE IF viewThrows(response.table, wsColumns, opts.aggregateData)
    THEN [workbook |-> sheets, outcome |-> "failed"]
    ELSE processData(sheets, worksheetName,
                     viewData(response.table, wsColumns, opts.aggregateData,
                              opts.includeNullsAcrossDimensions))

\* A view loop whose catch passes the error on to the outer try.
loopStopsOnFailure(outcome) == outcome # "failed"

\* The catch of the view loop swallows the error: the loop goes on.
loopContinues(outcome) == TRUE

\* XLSX.writeFile rejects a workbook without sheets; it can also fail in the
\* download itself.
writeFileThrows(sheets, downloadFails) == sheets = <<>> \/ downloadFails

\* An export that reports success whatever the write did.
finalStatusAlwaysSuccess(threw, selected) ==
    [type |-> "success", msg |-> "Successfully exported", count |-> Len(selected)]

\* The status the export ends with.
\* The success message reports selectedWorksheets.length worksheet(s).
finalStatus(threw, selected) ==
    IF threw THEN Status("error", "Error exporting")
    ELSE [type |-> "success", msg |-> "Successfully exported", count |-> Len(selected)]

----------------------------------------------------------------------------
(* Inputs of the single-view transform pass *)

MaxRows == 2

Reg == <<"R","e","g">>
City == <<"C","i","t","y">>
Qty == <<"S","U","M","(","Q","t","y",")">>
Old == <<"O","l","d">>
BaseFields == <<Reg, City, Qty>>

TString == Str(<<"s","t","r","i","n","g">>)
TInt == Str(<<"i","n","t">>)
TFloat == Str(<<"f","l","o","a","t">>)

TextCell(s) == [value |-> Str(s), formattedValue |-> Str(s)]
NumCell(n) == [value |-> Num(n), formattedValue |-> Str(IntToStr(n))]
EmptyCell == [value |-> Null, formattedValue |-> EmptyStr]

East == <<"E","a","s","t">>
West == <<"W","e","s","t">>
North == <<"N","o","r","t","h">>

\* Rows over the fields Reg, City, Qty: plain rows, total labels, blank and
\* null dimensions, values holding the key separator's character, measures
\* that are numbers, numeric strings, text, or missing.
BaseRows ==
    { <<TextCell(East), TextCell(North), NumCell(10)>>,
      <<TextCell(East), TextCell(North), NumCell(5)>>,
      <<TextCell(West), TextCell(North), NumCell(3)>>,
      <<TextCell(<<" ","T","o","t","a","l">>), TextCell(North), NumCell(18)>>,
      <<TextCell(East), TextCell(<<"G","r","a","n","d"," ","T","O","T","A","L">>), NumCell(18)>>,
      <<TextCell(<<" ">>), TextCell(North), NumCell(7)>>,
      <<TextCell(East), TextCell(<<"(","B","l","a","n","k",")">>), NumCell(7)>>,
      <<TextCell(<<"|">>), TextCell(<<"|","|">>), NumCell(1)>>,
      <<TextCell(<<"|","|">>), TextCell(<<"|">>), NumCell(2)>>,
      <<TextCell(East), TextCell(North), TextCell(<<"a","b","c">>)>>,
      <<TextCell(West), TextCell(North), TextCell(<<"7">>)>>,
      <<TextCell(East), TextCell(North), EmptyCell>>,
      <<TextCell(<<"T","O","T","A","L">>), TextCell(<<>>), EmptyCell>> }

\* A result set: which base fields it holds, in which order, typed how.
Schemas ==
    { [pos |-> <<1, 2, 3>>, types |-> <<TString, TString, TInt>>],
      [pos |-> <<1, 2, 3>>, types |-> <<TString, TString, TString>>],
      [pos |-> <<3, 1>>, types |-> <<TFloat, TString>>] }

Table(schema, rows) ==
    [columns |-> [i \in 1..Len(schema.pos) |->
                     [fieldName |-> BaseFields[schema.pos[i]], dataType |-> schema.types[i]]],
     data |-> [r \in 1..Len(rows) |->
                  [i \in 1..Len(schema.pos) |-> rows[r][schema.pos[i]]]]]

Tables ==
    {Table(schema, rows) : schema \in Schemas,
                           rows \in UNION {[1..n -> BaseRows] : n \in 0..MaxRows}}

\* Selections a column panel can hold: subsets in panel order, reordered
\* ones, ones naming a field the fresh result set no longer has.
SelectionNames ==
    { <<Reg, City, Qty>>, <<Qty, Reg>>, <<City, Qty, Reg>>, <<Reg, City>>, <<Qty>>,
      <<Reg, Old, Qty>>, <<Old>>, <<>> }

OutputName(originalName) == <<"x","_">> \o originalName

PanelDefaultType(originalName) == IF originalName = Qty THEN "number" ELSE "text"

Selection(originalNames, exportTypes) ==
    [present |-> TRUE,
     indices |-> [i \in 1..Len(originalNames) |-> i],
     names |-> [i \in 1..Len(originalNames) |-> OutputName(originalNames[i])],
     originalNames |-> originalNames,
     exportTypes |-> Types(exportTypes),
     sortField |-> <<>>, sortDirection |-> "asc", sortIndex |-> 0]

\* columnSelectionConfig.get(worksheetName) of a view without a panel.
NoSelection ==
    [present |-> FALSE, indices |-> <<>>, names |-> <<>>, originalNames |-> <<>>,
     exportTypes |-> Types(<<>>), sortField |-> <<>>, sortDirection |-> "asc",
     sortIndex |-> 0]

WsColumnsInputs ==
    {NoSelection}
    \cup {Selection(o, [i \in 1..Len(o) |-> "text"]) : o \in SelectionNames}
    \cup {Selection(o, [i \in 1..Len(o) |-> PanelDefaultType(o[i])]) : o \in SelectionNames}

SheetA == <<"S","h","e","e","t"," ","A">>

TransformInputs ==
    [dataTable : Tables, wsColumns : WsColumnsInputs, aggregateData : BOOLEAN,
     includeNulls : BOOLEAN, worksheetName : {SheetA}]

\* No function is being called directly.
NoFunctionCall == fpc = "off" /\ fin = [fn |-> "none"] /\ fout = [threw |-> FALSE]

NoExport == [done |-> FALSE, checked |-> {}, columnList |-> <<>>, config |-> <<>>]

\* The history when the calls `pending` of handleWorksheetSelection await a fetch.
historyAtStart(pending) ==
    [eventSince |-> {}, clicked |-> <<>>, response |-> Rejected, previous |-> NoExport,
     overtaken |-> [t \in DOMAIN pending |-> FALSE], staleCached |-> {}, overlapped |-> FALSE]

NoHistory == history = historyAtStart(<<>>)

NotListing == lpc = "off" /\ worksheetData = <<>> /\ worksheetList = <<>> /\ settled = <<>>

\* The page before the extension is initialised.
AppNotLoaded ==
    /\ worksheets = <<>> /\ checked = {} /\ worksheetColumns = <<>> /\ columnList = <<>>
    /\ tasks = <<>> /\ epc = "idle" /\ selectedWorksheets = <<>>
    /\ columnSelectionConfig = <<>> /\ options = NoOptions /\ viewIdx = 0
    /\ workbook = <<>> /\ outcomes = <<>> /\ written = NotWritten
    /\ loading = FALSE /\ exportDisabled = TRUE /\ status = NoStatus /\ events = 0

InitTransform ==
    /\ tpc = "fetched"
    /\ tin \in TransformInputs
    /\ tmapped = NoMapping
    /\ tdata = NullData
    /\ tsheets = <<>>
    /\ tstatus = "info"
    /\ AppNotLoaded
    /\ NoFunctionCall
    /\ NotListing
    /\ NoHistory

\* The per-view body of the export loop, run on the fetched result set.
ProcessView ==
    /\ tpc = "fetched"
    /\ tpc' = "done"
    /\ tmapped' = IF usesSelection(tin.wsColumns)
                  THEN resolveColumns(tin.dataTable, tin.wsColumns)
                  ELSE NoMapping
    /\ IF viewThrows(tin.dataTable, tin.wsColumns, tin.aggregateData)
       THEN /\ tdata' = NullData
            /\ tsheets' = <<>>
            /\ tstatus' = "error"
       ELSE /\ tdata' = viewData(tin.dataTable, tin.wsColumns, tin.aggregateData,
                                 tin.includeNulls)
            /\ tsheets' = viewSheets(tin.worksheetName, tdata')
            /\ tstatus' = "info"
    /\ UNCHANGED <<tin, avars, fvars, lvars, hvars>>

NextTransform == ProcessView

SpecTransform == InitTransform /\ [][NextTransform]_vars


----------------------------------------------------------------------------
(* The extension: worksheet selection, host events, export *)

MaxEvents == 2
MaxTasks == 2

ViewS == <<"S","/">>
ViewQ == <<"S","?">>
ViewT == <<"T">>

\* Dashboards: two views with different sheet names, and two views whose
\* names agree once sanitized.
Dashboards == { <<ViewS, ViewT>>, <<ViewS, ViewQ>> }

\* What the host returns for a view: two columns and two rows of one group, or
\* a column without a declared type.
HostTables ==
    { Table([pos |-> <<1, 3>>, types |-> <<TString, TInt>>],
            << <<TextCell(East), TextCell(North), NumCell(10)>>,
               <<TextCell(East), TextCell(North), NumCell(5)>> >>),
      Table([pos |-> <<1>>, types |-> <<Undefined>>],
            << <<TextCell(East), TextCell(North), NumCell(10)>> >>) }

\* getSummaryDataAsync settles with a result set or is rejected.
Responses == {Rejected} \cup {Resolved(t) : t \in HostTables}

\* States of the three option checkboxes at a click:
\* includeDuplicateRows, includeDashboardFilters, includeNullsAcrossDimensions.
OptionChoices ==
    { <<FALSE, FALSE, FALSE>>, <<FALSE, TRUE, FALSE>>, <<TRUE, FALSE, TRUE>>,
      <<TRUE, TRUE, TRUE>> }

IdleTransform ==
    /\ tpc = "off"
    /\ tin = [dataTable |-> [columns |-> <<>>, data |-> <<>>], wsColumns |-> NoSelection,
              aggregateData |-> TRUE, includeNulls |-> FALSE, worksheetName |-> SheetA]
    /\ tmapped = NoMapping /\ tdata = NullData /\ tsheets = <<>> /\ tstatus = "info"

\* The page once loadWorksheets has listed the views and called
\* updateExportButton and handleWorksheetSelection.
Init ==
    /\ IdleTransform
    /\ NoFunctionCall
    /\ NotListing
    /\ worksheets \in Dashboards
    /\ checked \in SUBSET Range(worksheets)
    /\ worksheetColumns = EmptyMap
    /\ columnList = <<>>
    /\ tasks = startSelection(checkedNames(worksheets, checked), EmptyMap, <<>>).awaiting
    /\ epc = "idle" /\ selectedWorksheets = <<>> /\ columnSelectionConfig = EmptyMap
    /\ options = NoOptions /\ viewIdx = 0 /\ workbook = <<>> /\ outcomes = <<>>
    /\ written = NotWritten /\ loading = FALSE
    /\ exportDisabled = (checked = {})
    /\ status = NoStatus
    /\ events = 0
    /\ history = historyAtStart(tasks)

exportFrame ==
    <<epc, selectedWorksheets, columnSelectionConfig, options, viewIdx, workbook, outcomes,
      written, loading>>

\* A change of the worksheet checkboxes: updateExportButton, then
\* handleWorksheetSelection up to its first await.
\* The page once a handleWorksheetSelection call has reached its await or end.
selectionShown(r) ==
    /\ columnList' = r.columnList
    /\ tasks' = tasks \o r.awaiting
    /\ history' = [history EXCEPT
                      !.eventSince = {},
                      !.overtaken = @ \o [t \in DOMAIN r.awaiting |-> FALSE],
                      !.overlapped = @ \/ tasks # <<>>]

selectionChanged(boxes) ==
    /\ events < MaxEvents
    /\ Len(tasks) < MaxTasks
    /\ checked' = boxes
    /\ exportDisabled' = (boxes = {})
    /\ selectionShown(startSelection(checkedNames(worksheets, boxes), worksheetColumns,
                                     columnList))
    /\ events' = events + 1
    /\ UNCHANGED <<tvars, fvars, lvars, worksheets, worksheetColumns, exportFrame, status>>

ToggleWorksheet(v) ==
    selectionChanged(IF v \in checked THEN checked \ {v} ELSE checked \cup {v})

selectAll == checked # Range(worksheets) /\ selectionChanged(Range(worksheets))

deselectAll == checked # {} /\ selectionChanged({})

\* The user ticks or unticks a column item.
ToggleColumn(p, i) ==
    /\ events < MaxEvents
    /\ p \in DOMAIN columnList
    /\ i \in DOMAIN columnList[p].items
    /\ columnList' = [columnList EXCEPT ![p].items[i].checked = ~@]
    /\ events' = events + 1
    /\ UNCHANGED <<tvars, fvars, lvars, hvars, worksheets, checked, worksheetColumns, tasks,
                   exportFrame,
                   exportDisabled, status>>

\* The column fetch of the t-th pending handleWorksheetSelection call settles.
\* The t-th pending call replaced by what it awaits next, if anything.
taskContinued(t, r) ==
    /\ columnList' = r.columnList
    /\ tasks' = SubSeq(tasks, 1, t - 1) \o r.awaiting \o SubSeq(tasks, t + 1, Len(tasks))
    /\ history' = [history EXCEPT
                      !.overtaken = SubSeq(@, 1, t - 1) \o [u \in DOMAIN r.awaiting |-> FALSE]
                                    \o SubSeq(@, t + 1, Len(@)),
                      !.staleCached = IF history.overtaken[t]
                                      THEN @ \cup {tasks[t].selected[tasks[t].k]}
                                      ELSE @ \ {tasks[t].selected[tasks[t].k]}]

\* window.worksheetColumns.set(name, columns), then the call runs on.
columnsCached(t, task, wc) ==
    /\ worksheetColumns' = wc
    /\ taskContinued(t, runSelection(task.selected,
                                     IF Len(task.selected) > 1 THEN task.k + 1 ELSE 1,
                                     wc, columnList))

ColumnsFetched(t, response) ==
    /\ t \in DOMAIN tasks
    /\ IF response.rejected
       THEN /\ columnList' = <<>>
            /\ tasks' = SubSeq(tasks, 1, t - 1) \o SubSeq(tasks, t + 1, Len(tasks))
            /\ history' = [history EXCEPT
                              !.overtaken = SubSeq(@, 1, t - 1) \o SubSeq(@, t + 1, Len(@))]
            /\ UNCHANGED worksheetColumns
       ELSE columnsCached(t, tasks[t],
                          MapSet(worksheetColumns, tasks[t].selected[tasks[t].k],
                                 response.table.columns))
    /\ UNCHANGED <<tvars, fvars, lvars, worksheets, checked, exportFrame, exportDisabled,
                   status, events>>

\* The cache after a listener of one worksheet has run.
cacheAfterClearAll(wc, name) == EmptyMap

cacheAfterViewEvent(wc, name) == IF MapHas(wc, name) THEN MapDelete(wc, name) ELSE wc

viewEvent(v, msg) ==
    /\ events < MaxEvents
    /\ v \in Range(worksheets)
    /\ worksheetColumns' = cacheAfterViewEvent(worksheetColumns, v)
    /\ status' = Status("info", msg)
    /\ events' = events + 1
    /\ history' = [history EXCEPT
                      !.eventSince = @ \cup {v},
                      !.overtaken = [t \in DOMAIN @ |->
                                       @[t] \/ tasks[t].selected[tasks[t].k] = v],
                      !.staleCached = @ \ {v}]
    /\ UNCHANGED <<tvars, fvars, lvars, worksheets, checked, columnList, tasks, exportFrame,
                   exportDisabled>>

\* Listener of TableauEventType.FilterChanged on worksheet v.
FilterChanged(v) == viewEvent(v, "Filter changed")

\* Listener of TableauEventType.ParameterChanged on worksheet v.
ParameterChanged(v) == viewEvent(v, "Parameter changed")

\* Listener of TableauEventType.ParameterChanged on the dashboard.
DashboardParameterChanged ==
    /\ events < MaxEvents
    /\ worksheetColumns' = EmptyMap
    /\ status' = Status("warning", "Parameter changed")
    /\ events' = events + 1
    /\ history' = [history EXCEPT !.staleCached = {}]
    /\ UNCHANGED <<tvars, fvars, lvars, worksheets, checked, columnList, tasks, exportFrame,
                   exportDisabled>>

\* setLoading(false): the indicator goes off and updateExportButton runs.
buttonLeftDisabled == TRUE

buttonDisabledAfterLoading == checked = {}

\* The panel of view v in #columnList (the last one, should there be several).
panelOf(list, v) ==
    list[CHOOSE p \in DOMAIN list :
            list[p].worksheet = v /\ \A q \in DOMAIN list : q > p => list[q].worksheet # v]

\* History: the checked column items, at the click, of the selected views that
\* had a filter or parameter event since the last selection change and whose
\* panel is displayed with a checked column.
clickedItems(selected, list, since) ==
    [v \in {w \in Range(selected) \cap since :
               \E p \in DOMAIN list :
                  list[p].worksheet = w /\ \E i \in DOMAIN list[p].items : list[p].items[i].checked}
        |-> SelectSeq(panelOf(list, v).items, LAMBDA item : item.checked)]

\* A click on the export button: exportToExcel up to its first await.
ClickExport(includeDuplicateRows, includeDashboardFilters, includeNullsAcrossDimensions) ==
    /\ events < MaxEvents
    /\ epc = "idle"
    /\ ~exportDisabled
    /\ events' = events + 1
    /\ LET selected == checkedNames(worksheets, checked)
       IN IF Len(selected) = 0
          THEN /\ status' = Status("error", "Please select at least one worksheet")
               /\ UNCHANGED <<worksheetColumns, exportFrame, exportDisabled, history>>
          ELSE /\ selectedWorksheets' = selected
               /\ history' = [history EXCEPT
                                 !.clicked = clickedItems(selected, columnList, history.eventSince),
                                 !.staleCached = @ \ Range(selected),
                                 !.previous = [done |-> TRUE, checked |-> checked,
                                               columnList |-> columnList,
                                               config |-> captureConfig(selected, columnList,
                                                                        worksheetColumns)]]
               /\ columnSelectionConfig' = captureConfig(selected, columnList, worksheetColumns)
               /\ worksheetColumns' = clearCache(worksheetColumns, selected)
               /\ options' = [aggregateData |-> ~includeDuplicateRows,
                              includeDashboardFilters |-> includeDashboardFilters,
                              includeNullsAcrossDimensions |-> includeNullsAcrossDimensions]
               /\ loading' = TRUE
               /\ exportDisabled' = TRUE
               /\ workbook' = <<>>
               /\ outcomes' = <<>>
               /\ written' = NotWritten
               /\ IF includeDashboardFilters
                  THEN /\ epc' = "filters"
                       /\ viewIdx' = 0
                       /\ status' = Status("info", "Collecting dashboard filters")
                  ELSE /\ epc' = "fetch"
                       /\ viewIdx' = 1
                       /\ status' = Status("info", "Processing")
    /\ UNCHANGED <<tvars, fvars, lvars, worksheets, checked, columnList, tasks>>

\* collectDashboardFilters has settled: the summary sheet is appended and the
\* view loop starts its first fetch.
FiltersCollected ==
    /\ epc = "filters"
    /\ workbook' = Append(workbook, filterSheet)
    /\ epc' = "fetch"
    /\ viewIdx' = 1
    /\ status' = Status("info", "Processing")
    /\ UNCHANGED <<tvars, fvars, lvars, hvars, worksheets, checked, worksheetColumns, columnList,
                   tasks,
                   selectedWorksheets, columnSelectionConfig, options, outcomes, written,
                   loading, exportDisabled, events>>

\* The fetch of the current view has settled: the rest of the pass, then the
\* next view's fetch, or after the last view the write, the final status and
\* the finally block, after which the locals of the call are gone.
\* The export leaves the view loop: the write unless the loop was aborted, the
\* final status, the finally block.
exportEnds(sheets, aborted, threw) ==
    /\ written' = IF aborted THEN written ELSE Written(sheets, ~threw)
    /\ status' = finalStatus(aborted \/ threw, selectedWorksheets)
    /\ epc' = "idle"
    /\ loading' = FALSE
    /\ exportDisabled' = buttonDisabledAfterLoading
    /\ workbook' = <<>>
    /\ viewIdx' = 0
    /\ selectedWorksheets' = <<>>
    /\ columnSelectionConfig' = EmptyMap
    /\ options' = NoOptions

\* The pass of view `name` has ended with r.
passEnds(name, r, aborted, downloadFails) ==
    /\ outcomes' = Append(outcomes, [view |-> name, outcome |-> r.outcome])
    /\ IF ~aborted /\ viewIdx < Len(selectedWorksheets)
       THEN /\ workbook' = r.workbook
            /\ viewIdx' = viewIdx + 1
            /\ status' = Status("info", "Processing")
            /\ UNCHANGED <<epc, written, loading, exportDisabled, selectedWorksheets,
                           columnSelectionConfig, options>>
       ELSE exportEnds(r.workbook, aborted, writeFileThrows(r.workbook, downloadFails))

viewPassed(name, r, downloadFails) ==
    passEnds(name, r, r.outcome = "failed" /\ ~loopContinues(r.outcome), downloadFails)

\* The pass that ends with r is the last one of the export.
lastPass(r) ==
    \/ viewIdx >= Len(selectedWorksheets)
    \/ ~loopContinues("failed") /\ r.outcome = "failed"

viewFetched(r, response, downloadFails) ==
    /\ history' = [history EXCEPT !.response = response,
                                  !.clicked = IF lastPass(r) THEN <<>> ELSE @]
    /\ viewPassed(selectedWorksheets[viewIdx], r, downloadFails)

ViewFetched(response, downloadFails) ==
    /\ epc = "fetch"
    /\ viewFetched(processView(workbook, selectedWorksheets[viewIdx], response,
                               configOf(columnSelectionConfig, selectedWorksheets[viewIdx]),
                               options),
                   response, downloadFails)
    /\ UNCHANGED <<tvars, fvars, lvars, worksheets, checked, worksheetColumns, columnList, tasks,
                   events>>

Next ==
    \/ \E v \in Range(worksheets) : ToggleWorksheet(v)
    \/ selectAll
    \/ deselectAll
    \/ \E p \in DOMAIN columnList : \E i \in DOMAIN columnList[p].items : ToggleColumn(p, i)
    \/ \E t \in DOMAIN tasks : \E response \in Responses : ColumnsFetched(t, response)
    \/ \E v \in Range(worksheets) : FilterChanged(v)
    \/ \E v \in Range(worksheets) : ParameterChanged(v)
    \/ DashboardParameterChanged
    \/ \E o \in OptionChoices : ClickExport(o[1], o[2], o[3])
    \/ FiltersCollected
    \/ \E response \in Responses : \E downloadFails \in BOOLEAN :
          ViewFetched(response, downloadFails)

Spec == Init /\ [][Next]_vars

\* The extension when every host call of an export settles: the promise of
\* collectDashboardFilters settles, and that of each getSummaryDataAsync of
\* the view loop is rejected or resolved, and the continuation of
\* exportToExcel runs.
HostCallSettles ==
    \/ FiltersCollected
    \/ \E downloadFails \in BOOLEAN : ViewFetched(Rejected, downloadFails)
    \/ \E table \in HostTables : \E downloadFails \in BOOLEAN :
          ViewFetched(Resolved(table), downloadFails)

SpecSettling == Spec /\ WF_vars(HostCallSettles)

----------------------------------------------------------------------------
(* Direct calls of the functions of the transform engine *)

MaxSortRows == 3

Returned(value) == [threw |-> FALSE, value |-> value]

\* Cells of a sort column, by the output type the column is sorted as: numbers,
\* numeric strings and values that do not parse; month-year strings of both
\* shapes; text in both cases next to numeric cells.
NumberKeys == {Num(2), Num(10), Str(<<"1","0">>), Str(<<"a","b","c">>), Null}
DateKeys ==
    {Str(<<"J","a","n","-","2","0","2","3">>), Str(<<"F","e","b","-","2","0","2","3">>),
     Str(<<"M","a","r","-","2","0","2","3">>), Str(<<"J","a","n","-","2","0","2","4">>),
     Str(<<"J","a","n","u","a","r","y"," ","2","0","2","3">>), Str(<<"x","y","z">>)}
TextKeys == {Str(<<"b">>), Str(<<"B">>), Str(<<"a">>), Num(0), Num(0 - 5)}

SortKeys(exportType) ==
    CASE exportType = "number" -> NumberKeys
      [] exportType \in {"date", "date-full"} -> DateKeys
      [] OTHER -> TextKeys

SortLabels == {<<"p">>, <<"q">>}
SortHeader == <<Str(<<"L","a","b","e","l">>), Str(<<"K","e","y">>)>>
SortRows(exportType) == {<<Str(l), k>> : l \in SortLabels, k \in SortKeys(exportType)}

\* A header row over up to MaxSortRows body rows of a label and a key.
SortMatrices(exportType) ==
    {<<SortHeader>> \o body :
        body \in UNION {[1..n -> SortRows(exportType)] : n \in 0..MaxSortRows}}

\* sortIndex 0 stands for the source's -1 and for an absent index.
SortCalls ==
    UNION {[fn : {"sortDataRows"}, data : SortMatrices(exportType), sortIndex : {0, 2},
            direction : {"asc", "desc"}, exportType : {exportType}] :
           exportType \in {"text", "number", "date", "date-full"}}

MaxCallRows == 2

Day == <<"D","a","y">>
TDate == Str(<<"d","a","t","e">>)
TNumber == Str(<<"n","u","m","b","e","r">>)
TReal == Str(<<"r","e","a","l">>)

\* Cells of the first column: a Date shown as a numeric date, a date string
\* shown as month and year, a short month-year string, a numeric string.
DayCells ==
    { [value |-> DateVal(2024, 10),
       formattedValue |-> Str(<<"1","1","/","1","/","2","0","2","4">>)],
      [value |-> Str(<<"2","0","2","4","-","1","1","-","0","1">>),
       formattedValue |-> Str(<<"N","o","v","e","m","b","e","r"," ","2","0","2","4">>)],
      TextCell(<<"N","o","v","-","2","0","2","4">>),
      TextCell(<<"7">>) }

CallRows == {<<d, NumCell(q)>> : d \in DayCells, q \in {1, 2}}

\* Declared types of the first column; Undefined stands for a column that
\* reports no type.
FirstColumnTypes == {TDate, TString, TNumber, TReal, Undefined}

CallTables ==
    {[columns |-> <<[fieldName |-> Day, dataType |-> t],
                    [fieldName |-> Qty, dataType |-> TInt]>>,
      data |-> rows] :
        t \in FirstColumnTypes, rows \in UNION {[1..n -> CallRows] : n \in 0..MaxCallRows}}

\* Both columns selected, in table order or swapped, the measure typed Number
\* and the first column typed in each of the four ways.
CallSelections ==
    {[selectedIndices |-> <<1, 2>>, selectedNames |-> <<Day, Qty>>,
      exportTypes |-> Types(<<t, "number">>)] : t \in {"text", "number", "date", "date-full"}}
    \cup {[selectedIndices |-> <<2, 1>>, selectedNames |-> <<Qty, Day>>,
            exportTypes |-> Types(<<"number", t>>)] :
             t \in {"text", "number", "date", "date-full"}}

FilterCalls ==
    [fn : {"filterColumns"}, dataTable : CallTables, selection : CallSelections,
     aggregateData : BOOLEAN, includeNulls : {FALSE}]

RawValues ==
    { Num(7), Num(0 - 3), Num(0), NaN, Str(<<"1","2">>), Str(<<" ","5","x">>),
      Str(<<"a","b","c">>), EmptyStr, Bool(TRUE), Bool(FALSE), DateVal(2024, 10),
      Null, Undefined }

DisplayValues ==
    { Str(<<"7">>), Str(<<"a","b","c">>), EmptyStr, Str(<<"N","o","v","-","2","0","2","4">>),
      Str(<<"N","o","v","e","m","b","e","r"," ","2","0","2","4">>),
      Str(<<"F","a","l","l"," ","2","0","2","4">>),
      Str(<<"1","1","/","1","/","2","0","2","4">>), Null }

\* The four output types, no type, and a type the function does not know.
OutputTypes == {"text", "number", "date", "date-full", "undefined", "currency"}

FormatCalls ==
    [fn : {"formatValue"}, value : RawValues, formattedValue : DisplayValues,
     exportType : OutputTypes]

MaxNameLen == 40

\* A name of n characters, every fifth of them the character c.
LongName(n, c) == [i \in 1..n |-> IF i % 5 = 0 THEN c ELSE "v"]

SheetNames ==
    { <<>>, <<"Q","1","/","Q","2"," ","R","e","p","o","r","t","?">>,
      <<"\\","/","?","*","[","]">> }
    \cup {LongName(n, c) : n \in 29..MaxNameLen,
                           c \in {"\\", "/", "?", "*", "[", "]", "_", " ", "v"}}

SanitizeCalls == [fn : {"sanitizeSheetName"}, name : SheetNames]

MaxViewRows == 3

\* Rows whose order by Reg, by City and by Qty are three different orders.
ViewRows ==
    { <<TextCell(East), TextCell(North), NumCell(10)>>,
      <<TextCell(West), TextCell(East), NumCell(5)>>,
      <<TextCell(North), TextCell(West), NumCell(7)>> }

\* Fresh result sets with all three fields, without City, without Reg.
ViewTables ==
    {Table(schema, rows) :
        schema \in { [pos |-> <<1, 2, 3>>, types |-> <<TString, TString, TInt>>],
                     [pos |-> <<1, 3>>, types |-> <<TString, TInt>>],
                     [pos |-> <<2, 3>>, types |-> <<TString, TInt>>] },
        rows \in UNION {[1..n -> ViewRows] : n \in 0..MaxViewRows}}

\* A saved selection with the sort the panel held at the click: sortIndex is
\* the position of the sort field among the selected original names.
SortedSelection(originalNames, sortField, sortDirection) ==
    [Selection(originalNames,
               [i \in 1..Len(originalNames) |-> PanelDefaultType(originalNames[i])])
       EXCEPT !.sortField = sortField, !.sortDirection = sortDirection,
              !.sortIndex = sortIndexOf(originalNames, sortField)]

SortedSelections ==
    {SortedSelection(o, f, d) :
        o \in {<<Reg, City, Qty>>, <<City, Qty, Reg>>, <<Qty, Reg>>},
        f \in {<<>>, Reg, Qty}, d \in {"asc", "desc"}}

ViewCalls ==
    [fn : {"viewData"}, dataTable : ViewTables, wsColumns : SortedSelections,
     aggregateData : BOOLEAN, includeNulls : {FALSE}]

InitFunctions ==
    /\ IdleTransform
    /\ AppNotLoaded
    /\ NotListing
    /\ NoHistory
    /\ fpc = "called"
    /\ fout = [threw |-> FALSE]
    /\ \/ fin \in SortCalls
       \/ fin \in FilterCalls
       \/ fin \in FormatCalls
       \/ fin \in SanitizeCalls
       \/ fin \in ViewCalls

\* What a call of filterColumns leaves: its two classifications of the columns
\* and the matrix it returned, or that it raised while splitting the selection.
filterColumnsCall(dataTable, selection, aggregateData, includeNulls) ==
    [threw |-> filterColumnsThrows(dataTable, selection.selectedIndices, aggregateData),
     measureIndicesAll |-> measureIndicesAll(dataTable),
     measureIndices |->
        IF aggregateData
           /\ ~filterColumnsThrows(dataTable, selection.selectedIndices, aggregateData)
        THEN measureIndices(dataTable, selection.selectedIndices)
        ELSE <<>>,
     value |->
        IF filterColumnsThrows(dataTable, selection.selectedIndices, aggregateData) THEN <<>>
        ELSE filterColumns(dataTable, selection.selectedIndices, selection.selectedNames,
                           aggregateData, selection.exportTypes, includeNulls)]

CallFilterColumns ==
    /\ fpc = "called"
    /\ fin.fn = "filterColumns"
    /\ fout' = filterColumnsCall(fin.dataTable, fin.selection, fin.aggregateData,
                                 fin.includeNulls)
    /\ fpc' = "returned"
    /\ UNCHANGED <<fin, tvars, avars, lvars, hvars>>

CallSortDataRows ==
    /\ fpc = "called"
    /\ fin.fn = "sortDataRows"
    /\ fout' = Returned(sortDataRows(fin.data, fin.sortIndex, fin.direction, fin.exportType))
    /\ fpc' = "returned"
    /\ UNCHANGED <<fin, tvars, avars, lvars, hvars>>

CallFormatValue ==
    /\ fpc = "called"
    /\ fin.fn = "formatValue"
    /\ fout' = IF formatValueThrows(fin.value, fin.formattedValue, fin.exportType)
               THEN [threw |-> TRUE]
               ELSE Returned(formatValue(fin.value, fin.formattedValue, fin.exportType))
    /\ fpc' = "returned"
    /\ UNCHANGED <<fin, tvars, avars, lvars, hvars>>

CallSanitizeSheetName ==
    /\ fpc = "called"
    /\ fin.fn = "sanitizeSheetName"
    /\ fout' = Returned(sanitizeSheetName(fin.name))
    /\ fpc' = "returned"
    /\ UNCHANGED <<fin, tvars, avars, lvars, hvars>>

\* The data step of one pass of the view loop: the columns resolved in the
\* fresh result set, filterColumns, then the sort.
CallViewData ==
    /\ fpc = "called"
    /\ fin.fn = "viewData"
    /\ fout' = IF viewThrows(fin.dataTable, fin.wsColumns, fin.aggregateData)
               THEN [threw |-> TRUE]
               ELSE Returned(viewData(fin.dataTable, fin.wsColumns, fin.aggregateData,
                                      fin.includeNulls))
    /\ fpc' = "returned"
    /\ UNCHANGED <<fin, tvars, avars, lvars, hvars>>

NextFunctions ==
    \/ CallSortDataRows
    \/ CallFilterColumns
    \/ CallFormatValue
    \/ CallSanitizeSheetName
    \/ CallViewData

SpecFunctions == InitFunctions /\ [][NextFunctions]_vars

----------------------------------------------------------------------------
(* Loading of the view list *)

MaxViews == 3

\* dashboard.worksheets: the views of the dashboard, up to MaxViews of them.
LoadDashboards == {SubSeq(<<ViewS, ViewT, ViewQ, Old>>, 1, n) : n \in 0..MaxViews}

\* What getSummaryDataAsync({ maxRows: 1 }) settles with: a result set of
\* no, one, two or three columns, or a rejection.
LoadTables ==
    {Table([pos |-> SubSeq(<<1, 2, 3>>, 1, n), types |-> SubSeq(<<TString, TString, TInt>>, 1, n)],
           <<>>) : n \in 0..3}

LoadResponses == {Rejected} \cup {Resolved(t) : t \in LoadTables}

InitLoad ==
    /\ IdleTransform
    /\ AppNotLoaded
    /\ NoFunctionCall
    /\ NotListing
    /\ NoHistory

\* worksheetData.push({worksheet, columnCount}): the count of the fetched
\* columns, 0 in the catch of the fetch.
fetchedCount(name, response) ==
    [worksheet |-> name,
     columnCount |-> IF response.rejected THEN 0 ELSE Len(response.table.columns)]

\* Every listed view checked, whatever its count.
checkedWhateverCount(data) == {data[i].worksheet : i \in DOMAIN data}

\* checkbox.checked = columnCount > 0, for every entry of worksheetData.
checkedByDefault(data) == {data[i].worksheet : i \in {j \in DOMAIN data : data[j].columnCount > 0}}

\* The end of loadWorksheets: one item per entry of worksheetData, then
\* updateExportButton and handleWorksheetSelection up to its first await.
listWorksheets(data) ==
    /\ worksheetList' = [i \in DOMAIN data |->
                            [value |-> data[i].worksheet, columnCount |-> data[i].columnCount]]
    /\ checked' = checkedByDefault(data)
    /\ exportDisabled' = (checkedByDefault(data) = {})
    /\ selectionShown(startSelection(checkedNames(worksheets, checkedByDefault(data)),
                                     worksheetColumns, columnList))
    /\ lpc' = "listed"

\* loadWorksheets up to its first await, or to its return when the dashboard
\* has no view.
LoadWorksheets(dashboardWorksheets) ==
    /\ lpc = "off"
    /\ worksheets' = dashboardWorksheets
    /\ lpc' = IF Len(dashboardWorksheets) = 0 THEN "none" ELSE "fetching"
    /\ UNCHANGED <<tvars, fvars, hvars, worksheetData, worksheetList, settled, checked, worksheetColumns,
                   columnList, tasks, exportFrame, exportDisabled, status, events>>

\* The column fetch of the next view settles: its count is recorded, and after
\* the last view the list is built.
LoadFetched(response) ==
    /\ lpc = "fetching"
    /\ settled' = Append(settled, response)
    /\ worksheetData' = Append(worksheetData,
                               fetchedCount(worksheets[Len(worksheetData) + 1], response))
    /\ IF Len(worksheetData) + 1 < Len(worksheets)
       THEN UNCHANGED <<lpc, worksheetList, checked, exportDisabled, columnList, tasks, history>>
       ELSE listWorksheets(Append(worksheetData,
                                  fetchedCount(worksheets[Len(worksheetData) + 1], response)))
    /\ UNCHANGED <<tvars, fvars, worksheets, worksheetColumns, exportFrame, status, events>>

NextLoad ==
    \/ \E d \in LoadDashboards : LoadWorksheets(d)
    \/ \E response \in LoadResponses : LoadFetched(response)

SpecLoad == InitLoad /\ [][NextLoad]_vars

----------------------------------------------------------------------------
(* Claims about the transform of one view (SpecTransform) *)

Done == tpc = "done"
Produced == Done /\ ~tdata.isNull /\ tstatus # "error"
InRows == tin.dataTable.data
Skips(rowData) == shouldSkipRow(tin.dataTable, rowData, tin.includeNulls)

\* The indices handed to filterColumns for the view.
UsedIndices ==
    IF usesSelection(tin.wsColumns) THEN tmapped.mappedIndices
    ELSE [i \in 1..Len(tin.dataTable.columns) |-> i]
UsedTypes ==
    IF usesSelection(tin.wsColumns) THEN Types(tmapped.mappedTypes) ELSE UndefinedTypes
UsedDims == dimensionIndices(tin.dataTable, UsedIndices)
UsedMeasures == measureIndices(tin.dataTable, UsedIndices)
GroupedMode == Produced /\ tin.aggregateData /\ UsedDims # <<>> /\ UsedMeasures # <<>>
Body == Tail(tdata.rows)

ClaimLabel(v) == toLowerCase(trim(JsString(v)))
ClaimIsTotal(v) ==
    ClaimLabel(v) \in {<<"t","o","t","a","l">>, <<"g","r","a","n","d"," ","t","o","t","a","l">>}
ClaimIsBlank(v) ==
    ClaimLabel(v) \in {<<>>, <<"n","u","l","l">>, <<"(","n","u","l","l",")">>,
                       <<"(","b","l","a","n","k",")">>}
MeasureColumns == {i \in DOMAIN tin.dataTable.columns : isMeasureAll(tin.dataTable.columns[i])}
DimensionColumns == DOMAIN tin.dataTable.columns \ MeasureColumns
ClaimNonEmpty(v) == v.t \notin {"null", "undef"} /\ ~(v.t = "str" /\ v.s = <<>>)
\* Some measure column of the row holds a non-empty raw or display value.
CarriesMeasure(rowData) ==
    \E i \in MeasureColumns :
        ClaimNonEmpty(rowData[i].value) \/ ClaimNonEmpty(rowData[i].formattedValue)
HasTotalLabel(rowData) == \E i \in DimensionColumns : ClaimIsTotal(rowData[i].formattedValue)
HasBlankDimension(rowData) ==
    \E i \in DimensionColumns : ClaimIsBlank(rowData[i].formattedValue)

DimTuple(rowData) == [k \in 1..Len(UsedDims) |-> rowData[UsedDims[k]].formattedValue]
KeptRowNumbers == {i \in DOMAIN InRows : ~Skips(InRows[i])}
KeptTuples == {DimTuple(InRows[i]) : i \in KeptRowNumbers}
\* The numeric raw value, a value that does not parse counting as 0.
ClaimNumber(v) ==
    IF v.t = "num" THEN v.n ELSE IF parseFloat(v).t = "num" THEN parseFloat(v).n ELSE 0
RECURSIVE ClaimSum(_, _, _)
\* Sum of column c over the kept rows among 1..i whose dimension tuple is tuple.
ClaimSum(tuple, c, i) ==
    IF i = 0 THEN 0
    ELSE ClaimSum(tuple, c, i - 1)
         + (IF i \in KeptRowNumbers /\ DimTuple(InRows[i]) = tuple
            THEN ClaimNumber(InRows[i][c].value) ELSE 0)
\* Output row o is the row of the group of tuple.
IsGroupRow(o, tuple) ==
    \A p \in DOMAIN UsedIndices :
        IF UsedIndices[p] \in Range(UsedMeasures)
        THEN o[p] = Num(ClaimSum(tuple, UsedIndices[p], Len(InRows)))
        ELSE o[p] = formatValue(tuple[IndexOf(UsedDims, UsedIndices[p])],
                                tuple[IndexOf(UsedDims, UsedIndices[p])],
                                typeAt(UsedTypes, p, "text"))

\* C1: in grouped mode (aggregation on, at least one selected dimension and one
\* selected measure) the body holds exactly one row per distinct tuple of
\* selected-dimension display values among the non-suppressed rows, and each
\* measure cell of that row is the sum of the measure's numeric raw values over
\* the rows of that tuple, unparseable values counting as 0.
C1_OneRowPerTupleWithSums ==
    GroupedMode =>
        /\ Len(Body) = Cardinality(KeptTuples)
        /\ \A tuple \in KeptTuples :
              Cardinality({j \in DOMAIN Body : IsGroupRow(Body[j], tuple)}) >= 1


\* The formatted row of input row i is among the body rows.
Emitted(i) ==
    \E j \in DOMAIN Body : Body[j] = formattedRow(InRows[i], UsedIndices, UsedTypes)
Passthrough == Produced /\ ~tin.aggregateData

\* C2 (as stated): whatever the result set, a row in which no measure column
\* holds a non-empty raw or display value is never suppressed by the row filter.
C2_NoMeasureValueNeverSuppressed ==
    Done => \A i \in DOMAIN InRows : ~CarriesMeasure(InRows[i]) => ~Skips(InRows[i])

\* C2 (amended): in a result set with at least one measure column, a row in
\* which no measure column holds a non-empty value is never suppressed, and the
\* passthrough output holds it; in a result set without measure columns a row
\* is suppressed exactly when it has a total label, or has a blank dimension
\* while null rows are not included.
C2_NoMeasureValueKeptWhenMeasuresExist ==
    Done =>
        \A i \in DOMAIN InRows :
            /\ (MeasureColumns # {} /\ ~CarriesMeasure(InRows[i]))
                  => (~Skips(InRows[i]) /\ (Passthrough => Emitted(i)))
            /\ MeasureColumns = {}
                  => (Skips(InRows[i]) <=>
                        (HasTotalLabel(InRows[i])
                         \/ (~tin.includeNulls /\ HasBlankDimension(InRows[i]))))

\* C2 witness: a total-labelled row with a blank dimension and no measure value,
\* in a result set that has a measure column, came out of a passthrough export
\* with null rows excluded.
C2_Witness ==
    /\ Passthrough /\ ~tin.includeNulls /\ MeasureColumns # {}
    /\ \E i \in DOMAIN InRows :
          /\ ~CarriesMeasure(InRows[i])
          /\ HasTotalLabel(InRows[i]) /\ HasBlankDimension(InRows[i])
          /\ Emitted(i)

\* The result set without its total-labelled rows that carry a measure value.
WithoutTotals ==
    [tin.dataTable EXCEPT
        !.data = SelectSeq(InRows, LAMBDA r : ~(CarriesMeasure(r) /\ HasTotalLabel(r)))]

\* C3: a row carrying a measure value whose display value in some dimension
\* column is 'total' or 'grand total' (case and surrounding whitespace ignored)
\* is suppressed whatever includeNulls is, and in every mode the output is the
\* one the result set without such rows yields: the row neither appears nor
\* adds to a sum.
C3_TotalRowsNeverExported ==
    Done =>
        /\ \A i \in DOMAIN InRows :
              (CarriesMeasure(InRows[i]) /\ HasTotalLabel(InRows[i])) => Skips(InRows[i])
        /\ Produced =>
              tdata = viewData(WithoutTotals, tin.wsColumns, tin.aggregateData,
                               tin.includeNulls)

\* C3 witness: a grouped export with null rows included met a total-labelled
\* row with a measure value next to a row it kept.
C3_Witness ==
    /\ GroupedMode /\ tin.includeNulls
    /\ Len(InRows) = 2 /\ Len(Body) = 1
    /\ \E i \in DOMAIN InRows : CarriesMeasure(InRows[i]) /\ HasTotalLabel(InRows[i])

\* C4: a row with a measure value and no total label is suppressed, when null
\* rows are excluded, exactly if some dimension column of the result set is
\* empty, whitespace, 'null', '(null)' or '(blank)'; when null rows are
\* included it is kept.  The passthrough output holds exactly the kept ones.
C4_BlankDimensionRows ==
    Done =>
        /\ \A i \in DOMAIN InRows :
              (CarriesMeasure(InRows[i]) /\ ~HasTotalLabel(InRows[i]))
                 => (Skips(InRows[i]) <=> (~tin.includeNulls /\ HasBlankDimension(InRows[i])))
        /\ (Passthrough /\ \A i \in DOMAIN InRows :
                              CarriesMeasure(InRows[i]) /\ ~HasTotalLabel(InRows[i]))
              => Len(Body) = Cardinality({i \in DOMAIN InRows :
                                            tin.includeNulls \/ ~HasBlankDimension(InRows[i])})

\* C4 witness: a passthrough export with null rows excluded dropped a row with
\* a blank dimension and kept the other row.
C4_Witness ==
    /\ Passthrough /\ ~tin.includeNulls
    /\ Len(InRows) = 2 /\ Len(Body) = 1
    /\ \A i \in DOMAIN InRows : CarriesMeasure(InRows[i]) /\ ~HasTotalLabel(InRows[i])
    /\ \E i \in DOMAIN InRows : HasBlankDimension(InRows[i])

RemoveAt(seq, k) == SubSeq(seq, 1, k - 1) \o SubSeq(seq, k + 1, Len(seq))
SavedNames == tin.wsColumns.originalNames
AbsentPositions == {i \in DOMAIN SavedNames : SavedNames[i] \notin Range(fieldNames(tin.dataTable))}
MappedFields ==
    [k \in DOMAIN tmapped.mappedIndices |->
        tin.dataTable.columns[tmapped.mappedIndices[k]].fieldName]

\* C5: resolving a saved selection by field name yields, when every name is in
\* the fresh result set, the selected columns in selection order with their
\* output names and types; when one name is absent, the selection without that
\* column; no error is raised, and the header is the resolved output names.
C5_ResolutionByName ==
    (Done /\ usesSelection(tin.wsColumns)) =>
        /\ tstatus # "error"
        /\ AbsentPositions = {} =>
              /\ MappedFields = SavedNames
              /\ tmapped.mappedNames = tin.wsColumns.names
              /\ tmapped.mappedTypes = tin.wsColumns.exportTypes.types
        /\ \A k \in AbsentPositions :
              AbsentPositions = {k} =>
                 /\ MappedFields = RemoveAt(SavedNames, k)
                 /\ tmapped.mappedNames = RemoveAt(tin.wsColumns.names, k)
                 /\ tmapped.mappedTypes = RemoveAt(tin.wsColumns.exportTypes.types, k)
        /\ ~tdata.isNull =>
              tdata.rows[1] = [p \in DOMAIN tmapped.mappedNames |-> Str(tmapped.mappedNames[p])]

\* C5 witness: a three-column selection lost its middle column and the two
\* others were found at other positions than in the selection.
C5_Witness ==
    /\ Done /\ usesSelection(tin.wsColumns)
    /\ Len(SavedNames) = 3 /\ AbsentPositions = {2}
    /\ tmapped.mappedIndices = <<2, 1>>
    /\ \E p \in DOMAIN tmapped.mappedTypes : tmapped.mappedTypes[p] = "number"

AllSuppressed == \A i \in DOMAIN InRows : Skips(InRows[i])

\* C6: a view whose selection is empty, or none of whose selected names is in
\* the fresh result set, gets no sheet; a view with a resolved column whose rows
\* are all suppressed gets one sheet that holds just the header row.
C6_SkippedOrHeaderOnly ==
    Done =>
        /\ (tin.wsColumns.present /\ AbsentPositions = DOMAIN SavedNames) => tsheets = <<>>
        /\ (usesSelection(tin.wsColumns) /\ AbsentPositions # DOMAIN SavedNames
            /\ AllSuppressed)
              => /\ Len(tsheets) = 1
                 /\ tsheets[1].data =
                       << [p \in DOMAIN tmapped.mappedNames |-> Str(tmapped.mappedNames[p])] >>

\* C6 witness: every row of a two-row result set was suppressed and the view
\* still got its header-only sheet.
C6_Witness ==
    /\ Done /\ usesSelection(tin.wsColumns) /\ AbsentPositions # DOMAIN SavedNames
    /\ Len(InRows) = 2 /\ AllSuppressed
    /\ Len(tsheets) = 1 /\ Len(tsheets[1].data) = 1

\* C6 witness of the skipped side is part of the same run: a selection none of
\* whose names exists leaves the workbook without a sheet.
C6_SkippedReached ==
    Done /\ usesSelection(tin.wsColumns) /\ AbsentPositions = DOMAIN SavedNames
    /\ tsheets = <<>>

\* The tuple of formatted, typed cell values of the selected columns of row i.
ClaimTuple(i) == formattedRow(InRows[i], UsedIndices, UsedTypes)
DistinctMode == Produced /\ tin.aggregateData /\ (UsedDims = <<>> \/ UsedMeasures = <<>>)
\* The kept rows whose tuple no earlier kept row has.
FirstOccurrences ==
    {i \in KeptRowNumbers : \A j \in KeptRowNumbers : j < i => ClaimTuple(j) # ClaimTuple(i)}
RECURSIVE TuplesOf(_, _)
\* The tuples of the rows of picks among rows 1..i, in source order.
TuplesOf(picks, i) ==
    IF i = 0 THEN <<>>
    ELSE TuplesOf(picks, i - 1) \o (IF i \in picks THEN <<ClaimTuple(i)>> ELSE <<>>)

\* C13: with aggregation on and a selection that is all dimensions or all
\* measures, the body holds, in source order, the tuple of each non-suppressed
\* row that no earlier non-suppressed row has, tuples being compared cell by
\* cell and a number differing from a string.
C13_DistinctByTuple ==
    DistinctMode => Body = TuplesOf(FirstOccurrences, Len(InRows))

\* The same for the result sets in which no selected cell holds the character
\* of the key separator.
C13_DistinctUnlessSeparator ==
    (DistinctMode /\ \A i \in DOMAIN InRows : \A p \in DOMAIN ClaimTuple(i) :
                        "|" \notin Range(JsString(ClaimTuple(i)[p])))
        => Body = TuplesOf(FirstOccurrences, Len(InRows))

\* C14: with aggregation off the body holds one row per non-suppressed source
\* row, in source order, duplicates included, and cell j of a row is the
\* formatted value of the j-th selected column.
C14_PassthroughKeepsEveryRow ==
    Passthrough =>
        /\ Len(Body) = Cardinality(KeptRowNumbers)
        /\ Body = TuplesOf(KeptRowNumbers, Len(InRows))
        /\ \A o \in DOMAIN Body : Len(Body[o]) = Len(UsedIndices)

\* C14 witness: a passthrough export of two equal rows emitted both.
C14_Witness ==
    /\ Passthrough /\ Len(InRows) = 2 /\ InRows[1] = InRows[2]
    /\ KeptRowNumbers = {1, 2}
    /\ Len(Body) = 2 /\ Body[1] = Body[2]
    /\ Len(UsedIndices) = 2 /\ UsedIndices # <<1, 2>>

\* The dimension cells of output row o are those of a group of source row i.
FromGroupOf(o, i) ==
    \A p \in DOMAIN UsedIndices :
        UsedIndices[p] \in Range(UsedDims) =>
            o[p] = formatValue(InRows[i][UsedIndices[p]].formattedValue,
                               InRows[i][UsedIndices[p]].formattedValue,
                               typeAt(UsedTypes, p, "text"))
GroupSources(o) == {i \in KeptRowNumbers : FromGroupOf(o, i)}
\* The first non-suppressed source row of the group of output row o.
FirstSource(o) == CHOOSE i \in GroupSources(o) : \A j \in GroupSources(o) : i <= j

\* C15: in grouped mode every body row is the row of a group met among the
\* non-suppressed source rows, and the body rows stand in the order in which
\* their groups were first met.
C15_GroupsInFirstEncounterOrder ==
    GroupedMode =>
        /\ \A o \in DOMAIN Body : GroupSources(Body[o]) # {}
        /\ \A o1, o2 \in DOMAIN Body :
              o1 < o2 => FirstSource(Body[o1]) < FirstSource(Body[o2])

\* C15 witness: the group met first sorts after the group met second by value
\* and still comes first.
C15_Witness ==
    /\ GroupedMode /\ Len(InRows) = 2 /\ Len(Body) = 2
    /\ \E p \in DOMAIN UsedIndices : Body[1][p] = Str(West) /\ Body[2][p] = Str(East)

----------------------------------------------------------------------------
(* Claims about the extension (Spec) *)

IsPrefix(a, b) == Len(a) <= Len(b) /\ SubSeq(b, 1, Len(a)) = a

SameEntry(w) ==
    /\ w \in DOMAIN worksheetColumns'
    /\ worksheetColumns'[w] = worksheetColumns[w]

\* C7: the listener of a filter-changed or parameter-changed event on view V
\* leaves the column cache without an entry for V and with every other entry
\* as it was; the listener of a dashboard-level parameter change leaves the
\* cache empty.
C7_EventsInvalidateTheirView ==
    [][ /\ \A v \in Range(worksheets) :
              (FilterChanged(v) \/ ParameterChanged(v)) =>
                  /\ v \notin DOMAIN worksheetColumns'
                  /\ DOMAIN worksheetColumns' = DOMAIN worksheetColumns \ {v}
                  /\ \A w \in DOMAIN worksheetColumns \ {v} : SameEntry(w)
        /\ DashboardParameterChanged => DOMAIN worksheetColumns' = {} ]_vars

\* C7 witness: after a view-level event one of two views has no cache entry
\* and the other one still has its columns.
C7_Witness ==
    /\ status.msg \in {"Filter changed", "Parameter changed"}
    /\ Cardinality(DOMAIN worksheetColumns) = 1
    /\ checked = Range(worksheets)
    /\ Len(columnList) = 2
    /\ tasks = <<>>

\* C8: once exportToExcel has passed its cache-clearing step, the column cache
\* holds no entry for any view, selected or not.
C8_CacheEmptyOnceExportStarted ==
    [][ (epc = "idle" /\ epc' # "idle") => DOMAIN worksheetColumns' = {} ]_vars

\* C9: a pass of the view loop, also one that failed in the fetch, the
\* transform or the append, keeps the sheets appended so far and is followed by
\* the fetch of the next selected view; after the last pass the workbook with
\* all sheets appended so far is handed to the writer.  Every selected view
\* has been through its pass by then.
C9_ViewFailureStaysLocal ==
    [][ (epc = "fetch" /\ outcomes' # outcomes) =>
            /\ Len(outcomes') = viewIdx
            /\ outcomes'[viewIdx].view = selectedWorksheets[viewIdx]
            /\ IF viewIdx < Len(selectedWorksheets)
               THEN /\ epc' = "fetch"
                    /\ viewIdx' = viewIdx + 1
                    /\ IsPrefix(workbook, workbook')
               ELSE /\ written'.done
                    /\ IsPrefix(workbook, written'.sheets) ]_vars

\* C9 witness: the first of two views failed, the second one was processed and
\* its sheet is in the workbook handed to the writer.
C9_Witness ==
    /\ epc = "idle" /\ written.done
    /\ Len(outcomes) = 2
    /\ outcomes[1].outcome = "failed"
    /\ outcomes[2].outcome = "appended"
    /\ Len(written.sheets) = 1

\* C9, the other order: a sheet appended for the first view is still in the
\* written workbook after the second view failed.
C9_EarlierSheetKept ==
    /\ epc = "idle" /\ written.done
    /\ Len(outcomes) = 2
    /\ outcomes[1].outcome = "appended"
    /\ outcomes[2].outcome = "failed"
    /\ Len(written.sheets) = 1

C10_PartialSuccessReached ==
    /\ epc = "idle" /\ written.done /\ written.ok
    /\ \E i \in DOMAIN outcomes : outcomes[i].outcome = "failed"
    /\ \E i \in DOMAIN outcomes : outcomes[i].outcome = "appended"
    /\ status.type = "success"

\* Names of the sheets of a workbook, in their order.
ClaimSheetNames(sheets) == [k \in DOMAIN sheets |-> sheets[k].name]
\* The views whose pass appended a sheet, in the order their passes ended.
AppendedViews(outs) == SelectSeq(outs, LAMBDA o : o.outcome = "appended")
\* The sheet names the claim expects after the passes outs: the filter summary
\* first when it was asked for, then one sheet per appended view.
ClaimWorkbookNames(withFilters, outs) ==
    (IF withFilters THEN <<FilterSheetName>> ELSE <<>>)
    \o [k \in DOMAIN AppendedViews(outs) |-> sanitizeSheetName(AppendedViews(outs)[k].view)]
\* The passes that have ended are those of the first views of the selection.
PassesInSelectionOrder(outs, selected) ==
    /\ Len(outs) <= Len(selected)
    /\ \A k \in DOMAIN outs : outs[k].view = selected[k]

\* C20 (between the steps): while the filters are collected no view has been
\* fetched and the workbook is empty; while the fetch of view number viewIdx
\* is awaited, exactly the passes of the views before it have ended, in
\* selection order, and the workbook holds the filter summary first, when it
\* was asked for, then the sheets of those views in that order.
ExportInOrder ==
    /\ epc = "filters" => outcomes = <<>> /\ workbook = <<>> /\ viewIdx = 0
    /\ epc = "fetch" =>
          /\ Len(outcomes) = viewIdx - 1
          /\ PassesInSelectionOrder(outcomes, selectedWorksheets)
          /\ ClaimSheetNames(workbook)
                = ClaimWorkbookNames(options.includeDashboardFilters, outcomes)

\* C20 (at the write): the workbook handed to the write follows the passes of
\* all the selected views, in selection order, the filter summary first.
WrittenInOrder ==
    (written' # written /\ written'.done) =>
        /\ Len(outcomes') = Len(selectedWorksheets)
        /\ PassesInSelectionOrder(outcomes', selectedWorksheets)
        /\ ClaimSheetNames(written'.sheets)
              = ClaimWorkbookNames(options.includeDashboardFilters, outcomes')

\* C20: an export processes the selected views one at a time in selection
\* order: the fetch of a view starts only when the pass of the view before it
\* has ended, the view sheets are appended in that order, and the filter
\* summary, when asked for, is appended before any view sheet.
C20_ViewsOneAtATimeInOrder == []ExportInOrder /\ [][WrittenInOrder]_vars

C20_Witness ==
    /\ written.done /\ Len(written.sheets) = 3
    /\ ClaimSheetNames(written.sheets)
         = <<FilterSheetName, sanitizeSheetName(ViewS), sanitizeSheetName(ViewT)>>
    /\ Len(outcomes) = 2

\* A view fetch of an export has settled and the pass of its view has ended.
ViewPassEnded == epc = "fetch" /\ Len(outcomes') = Len(outcomes) + 1
\* The view of that pass and the result set its fetch returned.
PassedView == selectedWorksheets[viewIdx]
FreshTable == history'.response.table
\* The sheets of the export after the pass.
SheetsAfterPass == IF epc' = "fetch" THEN workbook' ELSE written'.sheets
\* The pass meets nothing that fails it: the fetch resolved, every column of
\* the result set declares its type, and no earlier sheet has the view's name.
PassCanSucceed ==
    /\ ~history'.response.rejected
    /\ \A c \in DOMAIN FreshTable.columns : FreshTable.columns[c].dataType.t = "str"
    /\ sanitizeSheetName(PassedView) \notin Range(sheetNames(workbook))
\* The column items the user had checked for the view at the click that exist
\* in the fresh result set, in panel order.
CheckedAndFresh ==
    SelectSeq(history.clicked[PassedView],
              LAMBDA item : item.originalName \in Range(columnNames(FreshTable.columns)))

\* C22: when a view had a filter or parameter event since the last selection
\* change and its panel was displayed with a checked column at the export
\* click, the pass of the view appends a sheet whose header is the chosen names
\* of the checked columns that exist in the fresh result set, in their order.
C22_SelectionSurvivesViewEvent ==
    [][(/\ ViewPassEnded
        /\ PassedView \in DOMAIN history.clicked
        /\ PassCanSucceed
        /\ CheckedAndFresh # <<>>)
         => /\ outcomes'[Len(outcomes')].outcome = "appended"
            /\ SheetsAfterPass[Len(SheetsAfterPass)].data[1]
                 = [i \in DOMAIN CheckedAndFresh |-> Str(outputName(CheckedAndFresh[i]))]]_vars

\* The same pass when no filter or parameter event reached the view and its
\* columns are cached at the click: the selection is exported.
C22_SelectionExportedWhenCached ==
    [][(/\ ViewPassEnded
        /\ MapHas(columnSelectionConfig, PassedView)
        /\ Len(columnSelectionConfig[PassedView].originalNames) > 0
        /\ PassCanSucceed
        /\ \E i \in DOMAIN columnSelectionConfig[PassedView].originalNames :
              columnSelectionConfig[PassedView].originalNames[i]
                 \in Range(columnNames(FreshTable.columns)))
         => outcomes'[Len(outcomes')].outcome = "appended"]_vars

\* An export starts (the click got past the empty-selection check).
ExportStarts == epc = "idle" /\ epc' # "idle"
\* It is a second export with the views checked and the column configuration
\* displayed as they were at the click of the export before it.
SameAsPreviousExport ==
    /\ history.previous.done
    /\ history.previous.checked = checked
    /\ history.previous.columnList = columnList

\* C23: an export started with the same views checked and the same column
\* configuration displayed as the export before it resolves, for every view,
\* the same column selection as that export did.
C23_SecondExportResolvesSameSelection ==
    [][(ExportStarts /\ SameAsPreviousExport)
         => columnSelectionConfig' = history.previous.config]_vars

\* The same when the cache holds, at both clicks, the same columns for every
\* selected view.
C23_SameSelectionWhenCacheIsSame ==
    [][(/\ ExportStarts /\ SameAsPreviousExport
        /\ \A v \in checked :
              Len(cachedColumns(worksheetColumns, v)) > 0
                 <=> (MapHas(history.previous.config, v)
                      /\ Len(history.previous.config[v].originalNames) > 0))
         => \A v \in checked :
               MapHas(columnSelectionConfig', v) /\ MapHas(history.previous.config, v)
                  => columnSelectionConfig'[v].originalNames
                        = history.previous.config[v].originalNames]_vars

\* C25: after a filter or parameter event on a view the column cache holds no
\* column list for the view that comes from a fetch started before the event,
\* a fetch that was pending when the event was delivered included.
C25_NoColumnsFromBeforeEvent ==
    \A v \in Range(worksheets) : MapHas(worksheetColumns, v) => v \notin history.staleCached

\* The listener itself leaves no entry for its view: right after the event
\* the cache has none.
C25_EventDeletesEntry ==
    [][\A v \in Range(worksheets) :
          (v \in history'.eventSince /\ v \notin history.eventSince)
             => ~MapHas(worksheetColumns', v)]_vars

\* C26: while an export is loading (from setLoading(true) to setLoading(false))
\* the export button is disabled, whatever the user does to the view
\* checkboxes in between, so that no second export can be started.
C26_ButtonDisabledWhileLoading == loading => exportDisabled

\* The button is disabled when the loading starts and stays so through every
\* step of the export and every event that is not a change of the view
\* checkboxes.
C26_DisabledUntilSelectionChanges ==
    [][/\ (~loading /\ loading') => exportDisabled'
       /\ (loading /\ loading' /\ exportDisabled /\ checked' = checked) => exportDisabled']_vars

\* Every pending column fetch has settled, a view is selected, and the cache
\* holds typed columns for every selected view (no fetch failed for them).
SelectionSettled ==
    /\ tasks = <<>>
    /\ checked # {}
    /\ \A v \in checked :
          /\ MapHas(worksheetColumns, v)
          /\ Len(worksheetColumns[v]) > 0
          /\ ~panelThrows(worksheetColumns[v])
\* The panels of view v in #columnList.
PanelsOf(v) == {p \in DOMAIN columnList : columnList[p].worksheet = v}

\* C27: once every pending column fetch has settled, #columnList holds exactly
\* one column panel for each selected view and none for a view that is not
\* selected, also when a selection change arrived while an earlier
\* handleWorksheetSelection call was awaiting its fetch.  (With no view
\* selected the container is hidden; the formula is about a shown container.)
C27_OnePanelPerSelectedView ==
    SelectionSettled =>
        /\ \A v \in checked : Cardinality(PanelsOf(v)) = 1
        /\ \A p \in DOMAIN columnList : columnList[p].worksheet \in checked

\* The same when no handleWorksheetSelection call started while another one
\* was awaiting a fetch.
C27_OnePanelWhenCallsDoNotOverlap ==
    (SelectionSettled /\ ~history.overlapped) =>
        /\ \A v \in checked : Cardinality(PanelsOf(v)) = 1
        /\ \A p \in DOMAIN columnList : columnList[p].worksheet \in checked

\* The saved selection of the view of the pass.
PassedConfig == configOf(columnSelectionConfig, PassedView)
\* The matrix the transform yields for the view of the pass.
PassedData ==
    viewData(FreshTable, PassedConfig, options.aggregateData,
             options.includeNullsAcrossDimensions)
\* The fetch resolved and the transform of the view yields a matrix.
YieldsMatrix ==
    /\ ~history'.response.rejected
    /\ ~viewThrows(FreshTable, PassedConfig, options.aggregateData)
    /\ ~PassedData.isNull
    /\ Len(PassedData.rows) > 0
PairwiseDistinct(seq) == \A i, j \in DOMAIN seq : i # j => seq[i] # seq[j]

\* C28: the pass of a view whose transform yields a matrix adds exactly one
\* sheet to the workbook, and the names of the workbook's sheets are pairwise
\* distinct, also when the view's name agrees with an earlier view's name once
\* sanitized.
C28_OneSheetPerViewWithMatrix ==
    [][(ViewPassEnded /\ YieldsMatrix)
         => /\ Len(SheetsAfterPass) = Len(workbook) + 1
            /\ SheetsAfterPass[Len(SheetsAfterPass)].data = PassedData.rows
            /\ PairwiseDistinct(sheetNames(SheetsAfterPass))]_vars

\* The same for the passes of a view whose sanitized name no sheet of the
\* workbook has yet.
C28_OneSheetWhenNameIsNew ==
    [][(/\ ViewPassEnded /\ YieldsMatrix
        /\ sanitizeSheetName(PassedView) \notin Range(sheetNames(workbook)))
         => /\ Len(SheetsAfterPass) = Len(workbook) + 1
            /\ SheetsAfterPass[Len(SheetsAfterPass)].data = PassedData.rows
            /\ PairwiseDistinct(sheetNames(SheetsAfterPass))]_vars

\* The export ends with the success status.
ExportSucceeds == epc = "fetch" /\ epc' = "idle" /\ status'.type = "success"

\* The views of the export that ended in a sheet of the workbook.
SheetsOfExport(passes) == {i \in DOMAIN passes : passes[i].outcome = "appended"}

\* A view of the export whose processing failed.
SomeViewFailed(passes) == \E i \in DOMAIN passes : passes[i].outcome = "failed"

\* C29: when an export ends with the success status, the number of worksheets
\* it reports equals the number of view sheets appended to the workbook, and
\* no view of the export has failed under that success status.
C29_SuccessCountsAppendedSheets ==
    [][ExportSucceeds =>
         /\ status'.count = Cardinality(SheetsOfExport(outcomes'))
         /\ ~SomeViewFailed(outcomes')]_vars

\* What does hold: the success status reports the number of the selected
\* views, which is the number of the sheets when every view was appended.
C29_SuccessCountsSelectedViews ==
    [][ExportSucceeds =>
         /\ status'.count = Len(selectedWorksheets)
         /\ (\A i \in DOMAIN outcomes' : outcomes'[i].outcome = "appended")
               => status'.count = Cardinality(SheetsOfExport(outcomes'))]_vars

\* The export has ended: the finally block has run.
ExportOver == epc = "idle" /\ ~loading

\* C30: every export that got past the empty-selection check ends with the
\* loading state cleared, whatever its views and the write did, and at the
\* step that clears it the button is enabled exactly when a view is checked.
C30_ExportClearsLoading ==
    /\ (epc # "idle") ~> ExportOver
    /\ [][(loading /\ ~loading') => (exportDisabled' = (checked' = {}))]_vars

\* An export with a view whose processing failed has ended: the loading is
\* cleared and, a view being checked, the button is enabled.
C30_Witness ==
    /\ ExportOver /\ written.done /\ checked # {} /\ ~exportDisabled
    /\ \E i \in DOMAIN outcomes : outcomes[i].outcome = "failed"

----------------------------------------------------------------------------
(* Claims about the functions called directly (SpecFunctions) *)

SortReturned == fpc = "returned" /\ fin.fn = "sortDataRows"
SortNoOp == fin.sortIndex < 1 \/ Len(fin.data) <= 1
SortedBody == Tail(fout.value)
UnsortedBody == Tail(fin.data)
\* The key the comparator of the call gives a row.
SortKeyOf(row) == normalize(cellAt(row, fin.sortIndex), fin.exportType)

Placements(n) == {p \in [1..n -> 1..n] : \A i, j \in 1..n : i # j => p[i] # p[j]}

\* p tells, for each row of the sorted body, which input row it is, and rows
\* with equal keys come in their input order.
StablePlacement(p) ==
    /\ \A i \in DOMAIN SortedBody : SortedBody[i] = UnsortedBody[p[i]]
    /\ \A i, j \in DOMAIN SortedBody :
          (i < j /\ SortKeyOf(SortedBody[i]) = SortKeyOf(SortedBody[j])) => p[i] < p[j]

\* C11: with a sort index and at least one body row, sortDataRows returns the
\* header unchanged at row 0 and below it the input body rows, each with its
\* cells intact, permuted so that rows with equal sort keys keep their input
\* order, in both directions; without a sort index or on a header-only matrix
\* it returns its input.
C11_SortPermutesStably ==
    SortReturned =>
        IF SortNoOp THEN fout.value = fin.data
        ELSE /\ Len(fout.value) = Len(fin.data)
             /\ fout.value[1] = fin.data[1]
             /\ \E p \in Placements(Len(UnsortedBody)) : StablePlacement(p)

\* C11 witness: a descending sort moved a row to the front of two rows that tie
\* on the key and differ in their label, and the two kept their input order.
C11_Witness ==
    /\ SortReturned /\ ~SortNoOp /\ fin.direction = "desc"
    /\ Len(UnsortedBody) = 3
    /\ SortedBody = <<UnsortedBody[3], UnsortedBody[1], UnsortedBody[2]>>
    /\ SortKeyOf(UnsortedBody[1]) = SortKeyOf(UnsortedBody[2])
    /\ UnsortedBody[1] # UnsortedBody[2]
    /\ SortKeyOf(UnsortedBody[3]) # SortKeyOf(UnsortedBody[1])

\* C11 witness of the no-op side: a call without a sort index on an unordered
\* body returned its input.
C11_NoOpReached ==
    /\ SortReturned /\ fin.sortIndex < 1 /\ Len(UnsortedBody) = 3
    /\ fout.value = fin.data

\* The month count of 'Mon-YYYY' or 'Month YYYY', by the month tables.
ClaimMonthKey(str) ==
    IF Len(str) = 8 /\ str[4] = "-" /\ IndexOf(MonthShort, SubSeq(str, 1, 3)) > 0
    THEN NumKey(ParseDigits(SubSeq(str, 5, 8), 0) * 12
                + IndexOf(MonthShort, SubSeq(str, 1, 3)) - 1)
    ELSE IF Len(str) > 5 /\ IndexOf(MonthFull, SubSeq(str, 1, Len(str) - 5)) > 0
    THEN NumKey(ParseDigits(SubSeq(str, Len(str) - 3, Len(str)), 0) * 12
                + IndexOf(MonthFull, SubSeq(str, 1, Len(str) - 5)) - 1)
    ELSE NegInfinity

\* The type-aware key of a cell: the number it is or parses to, the month it
\* names, or its lower-cased string; negative infinity for what does not parse.
ClaimSortKey(v, exportType) ==
    IF exportType = "number"
    THEN (IF parseFloat(v).t = "num" THEN NumKey(parseFloat(v).n) ELSE NegInfinity)
    ELSE IF exportType \in {"date", "date-full"} THEN ClaimMonthKey(JsString(v))
    ELSE StrKey(toLowerCase(JsString(v)))

ClaimKeyOf(row) == ClaimSortKey(cellAt(row, fin.sortIndex), fin.exportType)

\* Row a may stand directly before row b in the direction of the call.
InDirection(a, b) ==
    IF fin.direction = "asc" THEN ~KeyLess(ClaimKeyOf(b), ClaimKeyOf(a))
    ELSE ~KeyLess(ClaimKeyOf(a), ClaimKeyOf(b))

\* C12: after sortDataRows the body rows are ordered by the type-aware key of
\* the sort column, non-decreasing when ascending and non-increasing when
\* descending: the numeric value for Number, the first-of-month instant for the
\* date types, the lower-cased string for Text, with values that do not parse
\* as negative infinity.
C12_BodyOrderedByTypedKey ==
    (SortReturned /\ ~SortNoOp) =>
        \A i \in 1..(Len(SortedBody) - 1) : InDirection(SortedBody[i], SortedBody[i + 1])

\* The same for the calls in which no text-sorted cell is the number 0.
C12_OrderedUnlessTextZero ==
    (SortReturned /\ ~SortNoOp
     /\ (fin.exportType = "text" => \A i \in DOMAIN UnsortedBody : UnsortedBody[i][2] # Num(0)))
        => \A i \in 1..(Len(SortedBody) - 1) : InDirection(SortedBody[i], SortedBody[i + 1])

FilterReturned == fpc = "returned" /\ fin.fn = "filterColumns" /\ ~fout.threw
CallIn == fin.dataTable.data
CallIndices == fin.selection.selectedIndices
CallBody == Tail(fout.value)
CallGrouped ==
    /\ FilterReturned /\ fin.aggregateData
    /\ fout.measureIndices # <<>> /\ Len(fout.measureIndices) < Len(CallIndices)
CallKept ==
    {i \in DOMAIN CallIn : ~shouldSkipRow(fin.dataTable, CallIn[i], fin.includeNulls)}
\* Display values of row i in the selected columns that are not split off as measures.
CallDimTuple(i) ==
    [p \in {q \in DOMAIN CallIndices : CallIndices[q] \notin Range(fout.measureIndices)} |->
        CallIn[i][CallIndices[p]].formattedValue]
\* The non-suppressed rows that are the first of their group.
CallFirsts ==
    {i \in CallKept : \A j \in CallKept : j < i => CallDimTuple(j) # CallDimTuple(i)}
RECURSIVE InOrder(_, _)
\* The members of a set of row numbers among 1..i, ascending.
InOrder(set, i) ==
    IF i = 0 THEN <<>> ELSE InOrder(set, i - 1) \o (IF i \in set THEN <<i>> ELSE <<>>)
\* What the passthrough mode emits for row i at output position p.
PassthroughCell(i, p) ==
    formatValue(CallIn[i][CallIndices[p]].value, CallIn[i][CallIndices[p]].formattedValue,
                typeAt(fin.selection.exportTypes, p, "text"))

\* C16: in grouped mode the body has one row per group and every dimension cell
\* of a row is the formatter's result, for the column's output type, on the raw
\* value and the display value of the cell of the group's first row: the value
\* the passthrough mode emits for that row and column.
C16_GroupedDimensionAsPassthrough ==
    CallGrouped =>
        /\ Len(CallBody) = Cardinality(CallFirsts)
        /\ \A o \in DOMAIN CallBody : \A p \in DOMAIN CallDimTuple(1) :
              CallBody[o][p] = PassthroughCell(InOrder(CallFirsts, Len(CallIn))[o], p)

\* The same for the cells whose raw value is their display value.
C16_SameWhenRawIsDisplay ==
    (CallGrouped /\ \A i \in DOMAIN CallIn : \A c \in DOMAIN CallIn[i] :
                       c \notin Range(fout.measureIndices)
                          => CallIn[i][c].value = CallIn[i][c].formattedValue)
        => /\ Len(CallBody) = Cardinality(CallFirsts)
           /\ \A o \in DOMAIN CallBody : \A p \in DOMAIN CallDimTuple(1) :
                 CallBody[o][p] = PassthroughCell(InOrder(CallFirsts, Len(CallIn))[o], p)

AggregateCallEnded == fpc = "returned" /\ fin.fn = "filterColumns" /\ fin.aggregateData
\* The role the row filter gave the selected column c: is it a measure?
FilterSaysMeasure(c) == c \in Range(fout.measureIndicesAll)
\* The role the split of the selection gave it.
SplitSaysMeasure(c) == c \in Range(fout.measureIndices)

\* C17: for every declared type of a column, 'number', 'real' and a missing type
\* included, a call that groups gives each selected column the same role in the
\* row filter and in the split of the selection (and so raises nothing while
\* classifying).
C17_RoleSameInFilterAndSplit ==
    AggregateCallEnded =>
        /\ ~fout.threw
        /\ \A p \in DOMAIN CallIndices :
              FilterSaysMeasure(CallIndices[p]) <=> SplitSaysMeasure(CallIndices[p])

\* The same for the columns that declare a type other than 'number'.
C17_SameUnlessNumberOrMissing ==
    (AggregateCallEnded
     /\ \A c \in DOMAIN fin.dataTable.columns :
           fin.dataTable.columns[c].dataType \notin {TNumber, Undefined})
        => /\ ~fout.threw
           /\ \A p \in DOMAIN CallIndices :
                 FilterSaysMeasure(CallIndices[p]) <=> SplitSaysMeasure(CallIndices[p])

FormatEnded == fpc = "returned" /\ fin.fn = "formatValue"
\* What the claim expects of the Number type: the raw number, else the float
\* its text parses to, else the display value.
ClaimNumberCell(value, formattedValue) ==
    IF value.t = "num" THEN value
    ELSE IF parseFloat(value).t = "num" THEN parseFloat(value)
    ELSE formattedValue

\* C18: a call of formatValue raises nothing, whatever the raw value (number,
\* string, boolean, date, null), display value and output type; Text and
\* FullDate return the display value as it is, and Number returns the raw
\* number, else the float the raw value parses to, else the display value.
C18_FormatValueNeverRaises ==
    FormatEnded =>
        /\ ~fout.threw
        /\ fin.exportType \in {"text", "date-full"} => fout.value = fin.formattedValue
        /\ fin.exportType = "number" => fout.value = ClaimNumberCell(fin.value, fin.formattedValue)

C18_Witness ==
    /\ FormatEnded /\ ~fout.threw
    /\ fin.exportType = "number" /\ fin.value = Bool(TRUE)
    /\ fin.formattedValue = Str(<<"a","b","c">>)
    /\ fout.value = fin.formattedValue

SanitizeEnded == fpc = "returned" /\ fin.fn = "sanitizeSheetName"
IllegalInSheetName == {"\\", "/", "?", "*", "[", "]"}

\* C19: sanitizeSheetName returns at most 31 characters, none of them one of
\* \ / ? * [ ]: the first 31 characters of the name with each illegal character
\* replaced by '_'; a name of at most 31 characters keeps its length and a name
\* of 40 characters comes back with exactly 31.
C19_SheetNameLegalAndShort ==
    SanitizeEnded =>
        /\ Len(fout.value) <= 31
        /\ \A i \in DOMAIN fout.value : fout.value[i] \notin IllegalInSheetName
        /\ Len(fout.value) = (IF Len(fin.name) <= 31 THEN Len(fin.name) ELSE 31)
        /\ \A i \in DOMAIN fout.value :
              fout.value[i] = (IF fin.name[i] \in IllegalInSheetName THEN "_" ELSE fin.name[i])
        /\ Len(fin.name) = 40 => Len(fout.value) = 31

C19_Witness ==
    /\ SanitizeEnded
    /\ Len(fin.name) = 40 /\ fin.name[5] = "/" /\ fin.name[35] = "/"
    /\ Len(fout.value) = 31 /\ fout.value[5] = "_"

----------------------------------------------------------------------------
(* Claims about the loading of the view list (SpecLoad) *)

\* The column count the claim expects for view number i: that of the result
\* set its fetch returned, 0 when the fetch was rejected.
ClaimCount(i) == IF settled[i].rejected THEN 0 ELSE Len(settled[i].table.columns)

\* C21: once the list is built it has one item per view of the dashboard, in
\* order, also when fetches were rejected; the item of a view whose fetch was
\* rejected shows 0 columns and is unchecked, and every other item shows the
\* count of the columns its own fetch returned and is checked exactly when
\* that count is greater than 0.
C21_RejectedFetchListsViewUnchecked ==
    lpc = "listed" =>
        /\ Len(worksheetList) = Len(worksheets)
        /\ \A i \in DOMAIN worksheets :
              /\ worksheetList[i].value = worksheets[i]
              /\ worksheetList[i].columnCount = ClaimCount(i)
              /\ (worksheets[i] \in checked) <=> (ClaimCount(i) > 0)
              /\ settled[i].rejected => worksheets[i] \notin checked

C21_Witness ==
    /\ lpc = "listed" /\ Len(worksheets) = 3
    /\ settled[2].rejected /\ ~settled[1].rejected /\ ~settled[3].rejected
    /\ worksheetList[2].columnCount = 0 /\ worksheetList[3].columnCount = 2
    /\ checked = {worksheets[3]}

ViewDataReturned == fpc = "returned" /\ fin.fn = "viewData" /\ ~fout.threw
\* The sort field is configured and is a column of the fresh result set.
SortFieldResolved ==
    /\ fin.wsColumns.sortField # <<>>
    /\ fin.wsColumns.sortField \in Range(fieldNames(fin.dataTable))
ViewHeader == fout.value.rows[1]
ViewBody == Tail(fout.value.rows)
\* The output column that holds the sort field, by its header cell.
SortColumn == IndexOf(ViewHeader, Str(OutputName(fin.wsColumns.sortField)))
\* The output type chosen for the sort field.
SortFieldType ==
    fin.wsColumns.exportTypes.types[IndexOf(fin.wsColumns.originalNames,
                                            fin.wsColumns.sortField)]
ViewKeyOf(row) == ClaimSortKey(cellAt(row, SortColumn), SortFieldType)
\* Row a may stand directly before row b in the direction of the selection.
ViewInDirection(a, b) ==
    IF fin.wsColumns.sortDirection = "asc" THEN ~KeyLess(ViewKeyOf(b), ViewKeyOf(a))
    ELSE ~KeyLess(ViewKeyOf(a), ViewKeyOf(b))
\* A selected column placed before the sort field is missing from the fresh
\* result set.
ColumnDroppedBeforeSortField ==
    \E i \in 1..(fin.wsColumns.sortIndex - 1) :
       fin.wsColumns.originalNames[i] \notin Range(fieldNames(fin.dataTable))

\* C24: when the view has a sort field and the field is a column of the fresh
\* result set, the body of the view's data is ordered on the output column
\* that holds the field, by the key of the field's output type, in the chosen
\* direction; also when a selected column before the sort field was dropped.
C24_SortedOnSortFieldColumn ==
    (ViewDataReturned /\ SortFieldResolved /\ ~fout.value.isNull) =>
        /\ SortColumn > 0
        /\ \A i \in 1..(Len(ViewBody) - 1) : ViewInDirection(ViewBody[i], ViewBody[i + 1])

\* The same for the calls in which no selected column before the sort field
\* is missing from the fresh result set.
C24_SortedWhenNothingDroppedBefore ==
    (ViewDataReturned /\ SortFieldResolved /\ ~fout.value.isNull
     /\ ~ColumnDroppedBeforeSortField) =>
        /\ SortColumn > 0
        /\ \A i \in 1..(Len(ViewBody) - 1) : ViewInDirection(ViewBody[i], ViewBody[i + 1])

====
